---------------------------- MODULE Spec2Model ----------------------------
(***************************************************************************)
(* Model of the optistock extraction-and-load scripts:                     *)
(*   - the four record normalizers (process_*_data),                       *)
(*   - the four paginated fetch loops (fetch_*_data) with the CSV sink     *)
(*     (save_batch_to_csv),                                                *)
(*   - the BigQuery loader (upload_csv_to_table) and the warehouse it      *)
(*     talks to,                                                           *)
(*   - the batch coordinator (batch_upload_csvs).                          *)
(*                                                                         *)
(* JSON values are tagged records:                                         *)
(*   [t |-> "null"]              Python None / JSON null                   *)
(*   [t |-> "str",  v |-> s]     a JSON string (one character long where   *)
(*                               it is indexed or iterated)                *)
(*   [t |-> "dict", d |-> f]     a JSON object, f a function on its keys   *)
(*   [t |-> "list", l |-> seq]   a JSON array                              *)
(***************************************************************************)
EXTENDS Integers, Sequences, FiniteSets, TLC

VARIABLES
    nz,     \* normalizer harness: entity, raw batch, phase, result
    run,    \* one extraction run: entity, source, start, pc, batch, counters
    file,   \* the run's output artifact: [exists, lines]
    up,     \* one upload_csv_to_table call and the job it configures
    up2,    \* a second, concurrent upload_csv_to_table call
    bq,     \* the warehouse: its datasets and the row count of its tables
    co      \* batch_upload_csvs: position in TABLE_MAPPING, counters, output

vars == <<nz, run, file, up, up2, bq, co>>

(***************************************************************************)
(* Bounds of the model and constants of the program.                       *)
(***************************************************************************)
MaxBatchLen == 2

MaxItems == 2

MaxTotal == 61

BATCH_SIZE == 30

Entities == {"inventory", "movements", "purchases", "sales"}

(***************************************************************************)
(* JSON values and the Python operations the normalizers apply to them.    *)
(***************************************************************************)
Null == [t |-> "null"]

S(v) == [t |-> "str", v |-> v]

D(f) == [t |-> "dict", d |-> f]

L(s) == [t |-> "list", l |-> s]

EmptyDict == D(<<>>)

EmptyList == L(<<>>)

DictWithout(obj, k) == D([x \in (DOMAIN obj.d) \ {k} |-> obj.d[x]])

DictWith(obj, k, v) ==
    D([x \in (DOMAIN obj.d) \cup {k} |-> IF x = k THEN v ELSE obj.d[x]])

\* The outcome of evaluating a Python expression: a value, or an exception.
Ok(v) == [exc |-> "none", v |-> v]

Raise(e) == [exc |-> e, v |-> Null]

\* obj[key] with a string key.
GetItem(obj, key) ==
    IF obj.t = "dict"
    THEN IF key \in DOMAIN obj.d THEN Ok(obj.d[key]) ELSE Raise("KeyError")
    ELSE Raise("TypeError")

\* obj[0].
GetIndex0(obj) ==
    CASE obj.t = "list" -> IF Len(obj.l) > 0 THEN Ok(obj.l[1]) ELSE Raise("IndexError")
      [] obj.t = "str"  -> IF obj.v # "" THEN Ok(obj) ELSE Raise("IndexError")
      [] obj.t = "dict" -> Raise("KeyError")
      [] OTHER          -> Raise("TypeError")

\* obj.get(key, default): only a dict has .get.
Get(obj, key, default) ==
    IF obj.t = "dict"
    THEN Ok(IF key \in DOMAIN obj.d THEN obj.d[key] ELSE default)
    ELSE Raise("AttributeError")

\* bool(obj).
Truthy(obj) ==
    CASE obj.t = "null" -> FALSE
      [] obj.t = "str"  -> obj.v # ""
      [] obj.t = "dict" -> DOMAIN obj.d # {}
      [] obj.t = "list" -> Len(obj.l) > 0

RECURSIVE SetToSeq(_)
SetToSeq(set) ==
    IF set = {} THEN <<>>
    ELSE LET x == CHOOSE y \in set : TRUE IN <<x>> \o SetToSeq(set \ {x})

\* The elements "for x in obj" visits, or the TypeError it raises.
IterOf(obj) ==
    CASE obj.t = "list" -> [exc |-> "none", elems |-> obj.l]
      [] obj.t = "str"  -> [exc |-> "none",
                            elems |-> IF obj.v = "" THEN <<>> ELSE <<obj>>]
      [] obj.t = "dict" -> [exc |-> "none",
                            elems |-> [i \in 1..Cardinality(DOMAIN obj.d) |->
                                          S(SetToSeq(DOMAIN obj.d)[i])]]
      [] OTHER          -> [exc |-> "TypeError", elems |-> <<>>]

\* try: x = <expr>  except (KeyError, TypeError[, IndexError]): x = None
OrNone(r) == IF r.exc = "none" THEN r.v ELSE Null

\* a[k1][k2] as one expression.
GetItem2(obj, k1, k2) ==
    LET r == GetItem(obj, k1) IN IF r.exc = "none" THEN GetItem(r.v, k2) ELSE r

(***************************************************************************)
(* A normalized row is a Python dict in insertion order: a sequence of     *)
(* [k |-> column, v |-> value].  A normalizer returns the rows it built,   *)
(* or the exception that left it.                                          *)
(***************************************************************************)
KV(k, v) == [k |-> k, v |-> v]

RowKeys(row) == [i \in DOMAIN row |-> row[i].k]

RowHas(row, k) == \E i \in DOMAIN row : row[i].k = k

RowGet(row, k) == row[CHOOSE i \in DOMAIN row : row[i].k = k].v

Returned(rows) == [exc |-> "none", rows |-> rows]

Raised(e) == [exc |-> e, rows |-> <<>>]

(***************************************************************************)
(* process_items_data: one row per item, every field under its own         *)
(* try/except.                                                             *)
(***************************************************************************)
PhotoUrl(item) ==
    LET images == GetItem(item, "images") IN
    IF images.exc # "none" THEN images
    ELSE LET first == GetIndex0(images.v) IN
         IF first.exc # "none" THEN first ELSE GetItem(first.v, "url")

ItemRow(item) ==
    << KV("id", OrNone(GetItem(item, "id"))),
       KV("name", OrNone(GetItem(item, "name"))),
       KV("initial_quantity", OrNone(GetItem2(item, "inventory", "initialQuantity"))),
       KV("initial_quantity_date",
          OrNone(GetItem2(item, "inventory", "initialQuantityDate"))),
       KV("final_available_quantity",
          OrNone(GetItem2(item, "inventory", "availableQuantity"))),
       KV("photo_url", OrNone(PhotoUrl(item))) >>

ItemRows(item) == Returned(<<ItemRow(item)>>)

(***************************************************************************)
(* process_warehouse_transfers_data: transfer-level fields, then one row   *)
(* per item; the except branch of the item loop appends the bare           *)
(* transfer_info.                                                          *)
(***************************************************************************)
TransferInfo(transfer) ==
    << KV("movement_date", OrNone(GetItem(transfer, "date"))),
       KV("warehouse_origin", OrNone(GetItem2(transfer, "origin", "name"))),
       KV("warehouse_destination",
          OrNone(GetItem2(transfer, "destination", "name"))) >>

\* TransferItemRow with the item id read from the wrong key.
TransferItemRow_WrongKey(transfer_info, item) ==
    transfer_info \o
    << KV("item_id", OrNone(GetItem(item, "name"))),
       KV("item_name", OrNone(GetItem(item, "name"))),
       KV("quantity", OrNone(GetItem(item, "quantity"))) >>

TransferItemRow(transfer_info, item) ==
    transfer_info \o
    << KV("item_id", OrNone(GetItem(item, "id"))),
       KV("item_name", OrNone(GetItem(item, "name"))),
       KV("quantity", OrNone(GetItem(item, "quantity"))) >>

TransferRows(transfer) ==
    LET transfer_info == TransferInfo(transfer)
        items == GetItem(transfer, "items")
    IN  IF items.exc # "none" THEN Returned(<<transfer_info>>)
        ELSE LET it == IterOf(items.v) IN
             IF it.exc # "none" THEN Returned(<<transfer_info>>)
             ELSE Returned([i \in DOMAIN it.elems |->
                               TransferItemRow(transfer_info, it.elems[i])])

(***************************************************************************)
(* process_purchase_orders_data: the whole order sits in one try; its      *)
(* handler logs order.get('id', ...) and continues with the next order.    *)
(***************************************************************************)
PurchaseItemRow(order_id, delivery_date, warehouse_name, item) ==
    << KV("invoice_id", order_id),
       KV("added_inventory_date", delivery_date),
       KV("provider_id", order_id),
       KV("warehouse_name", warehouse_name),
       KV("price_provider", Get(item, "price", Null).v),
       KV("quantity", Get(item, "quantity", Null).v),
       KV("item_id", Get(item, "id", Null).v),
       KV("item_name", Get(item, "name", Null).v) >>

\* The number of leading elements that have .get (item.get raises on the next).
RECURSIVE DictPrefix(_, _)
DictPrefix(elems, i) ==
    IF i > Len(elems) \/ elems[i].t # "dict" THEN i - 1
    ELSE DictPrefix(elems, i + 1)

\* except Exception as e: logging.warning(f"... {order.get('id', 'unknown')}")
OrderHandler(order, rows) ==
    IF Get(order, "id", S("unknown")).exc = "none"
    THEN Returned(rows) ELSE [exc |-> "AttributeError", rows |-> rows]

OrderWarehouseName(order) ==
    IF Truthy(Get(order, "warehouse", Null).v)
    THEN Get(Get(order, "warehouse", EmptyDict).v, "name", Null)
    ELSE Ok(Null)

OrderItems(order) ==
    LET r == Get(Get(order, "purchases", EmptyDict).v, "items", EmptyList) IN
    IF r.exc # "none" THEN r
    ELSE IF ~Truthy(r.v) /\ "items" \in DOMAIN order.d
         THEN Ok(order.d["items"]) ELSE r

OrderRows(order) ==
    LET id == GetItem(order, "id") IN
    IF id.exc # "none" THEN OrderHandler(order, <<>>)
    ELSE
    LET order_id == id.v
        delivery_date == Get(order, "deliveryDate", Null).v
        wh == OrderWarehouseName(order)
    IN  IF wh.exc # "none" THEN OrderHandler(order, <<>>)
        ELSE
        LET purchases_items == OrderItems(order) IN
        IF purchases_items.exc # "none" THEN OrderHandler(order, <<>>)
        ELSE
        LET it == IterOf(purchases_items.v) IN
        IF it.exc # "none" THEN OrderHandler(order, <<>>)
        ELSE
        LET n == DictPrefix(it.elems, 1)
            rows == [i \in 1..n |->
                        PurchaseItemRow(order_id, delivery_date, wh.v, it.elems[i])]
        IN  IF n < Len(it.elems) THEN OrderHandler(order, rows)
            ELSE Returned(rows)

(***************************************************************************)
(* process_invoice_data: the invoice sits in one try that catches only     *)
(* KeyError and TypeError; an AttributeError leaves the function.          *)
(***************************************************************************)
InvoiceItemRow(invoice_id, sale_date, warehouse_name, item) ==
    << KV("factura_id", invoice_id),
       KV("fecha_venta", sale_date),
       KV("item_id", Get(item, "id", Null).v),
       KV("item_name", Get(item, "name", Null).v),
       KV("item_quantity", Get(item, "quantity", Null).v),
       KV("warehouse_name", warehouse_name) >>

InvoiceRows(invoice) ==
    IF Get(invoice, "id", Null).exc # "none" THEN Raised("AttributeError")
    ELSE
    LET invoice_id == Get(invoice, "id", Null).v
        sale_date == Get(invoice, "date", Null).v
        items == Get(invoice, "items", EmptyList).v
        wh == Get(Get(invoice, "warehouse", EmptyDict).v, "name", S("Unknown"))
    IN  IF wh.exc # "none" THEN Raised(wh.exc)
        ELSE
        LET it == IterOf(items) IN
        IF it.exc # "none" THEN Returned(<<>>)
        ELSE IF DictPrefix(it.elems, 1) < Len(it.elems) THEN Raised("AttributeError")
             ELSE Returned([i \in DOMAIN it.elems |->
                              InvoiceItemRow(invoice_id, sale_date, wh.v, it.elems[i])])

(***************************************************************************)
(* The loop over the batch that all four normalizers share: rows are       *)
(* appended record by record; an exception that leaves one record's        *)
(* processing leaves the function.                                         *)
(***************************************************************************)
RecordRows(entity, rec) ==
    CASE entity = "inventory" -> ItemRows(rec)
      [] entity = "movements" -> TransferRows(rec)
      [] entity = "purchases" -> OrderRows(rec)
      [] entity = "sales"     -> InvoiceRows(rec)

RECURSIVE NormalizeFrom(_, _, _)
NormalizeFrom(entity, batch, i) ==
    IF i > Len(batch) THEN Returned(<<>>)
    ELSE LET r == RecordRows(entity, batch[i]) IN
         IF r.exc # "none" THEN Raised(r.exc)
         ELSE LET rest == NormalizeFrom(entity, batch, i + 1) IN
              IF rest.exc # "none" THEN rest ELSE Returned(r.rows \o rest.rows)

process_items_data(items) == NormalizeFrom("inventory", items, 1)

process_warehouse_transfers_data(transfers) == NormalizeFrom("movements", transfers, 1)

process_purchase_orders_data(orders) == NormalizeFrom("purchases", orders, 1)

process_invoice_data(invoices) == NormalizeFrom("sales", invoices, 1)

Normalize(entity, batch) ==
    CASE entity = "inventory" -> process_items_data(batch)
      [] entity = "movements" -> process_warehouse_transfers_data(batch)
      [] entity = "purchases" -> process_purchase_orders_data(batch)
      [] entity = "sales"     -> process_invoice_data(batch)

(***************************************************************************)
(* Raw records the source API can return, per entity: the well-formed      *)
(* ones (k >= 1 items) and the partially populated ones.                   *)
(***************************************************************************)
NestedEntities == {"movements", "purchases", "sales"}

Item(i) ==
    D([id |-> S("i" \o ToString(i)), name |-> S("n" \o ToString(i)),
       quantity |-> S("q" \o ToString(i)), price |-> S("c" \o ToString(i))])

ItemList(k) == L([i \in 1..k |-> Item(i)])

\* A well-formed record of a nested entity around the given items value.
\* A purchase order carries its items under "purchases" (variant 1) or at
\* the top level (variant 2).
Parent(entity, variant, items) ==
    CASE entity = "movements" ->
           D([date |-> S("d1"), origin |-> D([name |-> S("A")]),
              destination |-> D([name |-> S("B")]), items |-> items])
      [] entity = "purchases" /\ variant = 1 ->
           D([id |-> S("r1"), deliveryDate |-> S("d1"),
              warehouse |-> D([name |-> S("W")]),
              purchases |-> D([items |-> items])])
      [] entity = "purchases" /\ variant = 2 ->
           D([id |-> S("r1"), deliveryDate |-> S("d1"),
              warehouse |-> D([name |-> S("W")]), items |-> items])
      [] entity = "sales" ->
           D([id |-> S("r1"), date |-> S("d1"),
              warehouse |-> D([name |-> S("W")]), items |-> items])

Variants(entity) == IF entity = "purchases" THEN {1, 2} ELSE {1}

\* The key whose value holds the record's item list.
ItemsHolder(entity, variant) ==
    IF entity = "purchases" /\ variant = 1 THEN "purchases" ELSE "items"

WellFormedRecords(entity) ==
    { Parent(entity, v, ItemList(k)) : v \in Variants(entity), k \in 1..MaxItems }

\* Records with zero nested items: the items key missing, or an empty list.
ZeroItemRecords(entity) ==
    { DictWithout(Parent(entity, v, EmptyList), ItemsHolder(entity, v)) :
          v \in Variants(entity) }
    \cup { Parent(entity, v, EmptyList) : v \in Variants(entity) }

\* Records with items in which one field is missing, null or of the wrong type.
FaultyFieldRecords(entity) ==
    LET good == Parent(entity, 1, ItemList(1))
        wh   == IF entity = "movements" THEN "origin" ELSE "warehouse"
        key  == IF entity = "movements" THEN "date" ELSE "id"
    IN  { DictWith(good, wh, Null),
          DictWith(good, wh, S("x")),
          DictWithout(good, wh),
          DictWithout(good, key),
          Parent(entity, 1, L(<<DictWithout(Item(1), "id"), Item(2)>>)) }

\* Records whose items value or item is not what the loop expects.
OddRecords(entity) ==
    { Parent(entity, 1, Null),
      Parent(entity, 1, L(<<Item(1), Null>>)),
      Null }

GoodItem ==
    D([id |-> S("i1"), name |-> S("n1"),
       inventory |-> D([initialQuantity |-> S("q0"),
                        initialQuantityDate |-> S("d0"),
                        availableQuantity |-> S("q1")]),
       images |-> L(<<D([url |-> S("u1")])>>)])

InventoryRecords ==
    { GoodItem,
      DictWithout(GoodItem, "id"),
      DictWithout(GoodItem, "inventory"),
      DictWith(GoodItem, "inventory", Null),
      DictWith(GoodItem, "inventory", D([availableQuantity |-> S("q1")])),
      DictWithout(GoodItem, "images"),
      DictWith(GoodItem, "images", EmptyList),
      DictWith(GoodItem, "images", S("x")),
      Null }

RawRecords(entity) ==
    IF entity = "inventory" THEN InventoryRecords
    ELSE WellFormedRecords(entity) \cup ZeroItemRecords(entity)
         \cup FaultyFieldRecords(entity) \cup OddRecords(entity)

RawBatches(entity) ==
    UNION { [1..n -> RawRecords(entity)] : n \in 1..MaxBatchLen }

(***************************************************************************)
(* Idle values of the components a specification does not exercise.        *)
(***************************************************************************)
NzIdle == [entity |-> "none", batch |-> <<>>, phase |-> "idle",
           result |-> Returned(<<>>)]

RunIdle == [pc |-> "idle"]

FileIdle == [exists |-> FALSE, lines |-> <<>>]

UpIdle == [pc |-> "idle"]

WhIdle == [datasets |-> {}, tables |-> <<>>]

CoIdle == [pc |-> "idle"]

(***************************************************************************)
(* SpecNormalize: each normalizer applied to a raw batch.                  *)
(***************************************************************************)
InitNormalize ==
    /\ \E e \in Entities : \E b \in RawBatches(e) :
          nz = [entity |-> e, batch |-> b, phase |-> "ready",
                result |-> Returned(<<>>)]
    /\ run = RunIdle
    /\ file = FileIdle
    /\ up = UpIdle
    /\ up2 = UpIdle
    /\ bq = WhIdle
    /\ co = CoIdle

ApplyNormalizer(entity, result) ==
    /\ nz.phase = "ready"
    /\ nz.entity = entity
    /\ nz' = [nz EXCEPT !.phase = "done", !.result = result]
    /\ UNCHANGED <<run, file, up, up2, bq, co>>

NormalizeItems == ApplyNormalizer("inventory", process_items_data(nz.batch))

NormalizeTransfers ==
    ApplyNormalizer("movements", process_warehouse_transfers_data(nz.batch))

NormalizeOrders == ApplyNormalizer("purchases", process_purchase_orders_data(nz.batch))

NormalizeInvoices == ApplyNormalizer("sales", process_invoice_data(nz.batch))

NextNormalize ==
    \/ NormalizeItems
    \/ NormalizeTransfers
    \/ NormalizeOrders
    \/ NormalizeInvoices

SpecNormalize == InitNormalize /\ [][NextNormalize]_vars

(***************************************************************************)
(* Properties of the normalizers.                                          *)
(***************************************************************************)
NzDone == nz.phase = "done"

ItemCols(entity) ==
    CASE entity = "movements" -> {"item_id", "item_name", "quantity"}
      [] entity = "purchases" -> {"price_provider", "quantity", "item_id", "item_name"}
      [] entity = "sales"     -> {"item_id", "item_name", "item_quantity"}

\* The item list of a well-formed record.
ItemsOfGood(entity, rec) ==
    IF entity = "purchases" /\ "purchases" \in DOMAIN rec.d
    THEN rec.d.purchases.d.items.l
    ELSE rec.d.items.l

\* The number of items in the records before position j.
RECURSIVE ItemsBefore(_, _, _)
ItemsBefore(entity, batch, j) ==
    IF j <= 1 THEN 0
    ELSE ItemsBefore(entity, batch, j - 1) + Len(ItemsOfGood(entity, batch[j - 1]))

\* The row carries the record's parent-level values.
CarriesParent(entity, rec, row) ==
    CASE entity = "movements" ->
           /\ RowHas(row, "movement_date")
           /\ RowGet(row, "movement_date") = rec.d.date
           /\ RowHas(row, "warehouse_origin")
           /\ RowGet(row, "warehouse_origin") = rec.d.origin.d.name
           /\ RowHas(row, "warehouse_destination")
           /\ RowGet(row, "warehouse_destination") = rec.d.destination.d.name
      [] entity = "purchases" ->
           /\ RowHas(row, "invoice_id")
           /\ RowGet(row, "invoice_id") = rec.d.id
           /\ RowHas(row, "added_inventory_date")
           /\ RowGet(row, "added_inventory_date") = rec.d.deliveryDate
           /\ RowHas(row, "warehouse_name")
           /\ RowGet(row, "warehouse_name") = rec.d.warehouse.d.name
      [] entity = "sales" ->
           /\ RowHas(row, "factura_id")
           /\ RowGet(row, "factura_id") = rec.d.id
           /\ RowHas(row, "fecha_venta")
           /\ RowGet(row, "fecha_venta") = rec.d.date
           /\ RowHas(row, "warehouse_name")
           /\ RowGet(row, "warehouse_name") = rec.d.warehouse.d.name

\* The row carries the item's own id, name and quantity.
CarriesItem(entity, item, row) ==
    LET qty == IF entity = "sales" THEN "item_quantity" ELSE "quantity" IN
    /\ RowHas(row, "item_id") /\ RowGet(row, "item_id") = item.d.id
    /\ RowHas(row, "item_name") /\ RowGet(row, "item_name") = item.d.name
    /\ RowHas(row, qty) /\ RowGet(row, qty) = item.d.quantity

\* C3 (as claimed): a batch of records with zero nested items (items key
\* missing, or an empty list) normalizes to exactly one row per record, the
\* row carrying the parent-level fields and every item-level column as null.
C3_ZeroItemsOneRowEach ==
    (/\ NzDone
     /\ nz.entity \in NestedEntities
     /\ \A j \in DOMAIN nz.batch : nz.batch[j] \in ZeroItemRecords(nz.entity))
    => /\ nz.result.exc = "none"
       /\ Len(nz.result.rows) = Len(nz.batch)
       /\ \A j \in DOMAIN nz.batch :
             /\ CarriesParent(nz.entity, nz.batch[j], nz.result.rows[j])
             /\ \A c \in ItemCols(nz.entity) :
                   /\ RowHas(nz.result.rows[j], c)
                   /\ RowGet(nz.result.rows[j], c) = Null

\* C4: a batch of well-formed records, the j-th with k_j >= 1 items,
\* normalizes to exactly k_1 + ... + k_n rows, record by record and in item
\* order, each row carrying its record's parent-level values and its item's
\* id, name and quantity.
C4_RowPerItem ==
    (/\ NzDone
     /\ nz.entity \in NestedEntities
     /\ \A j \in DOMAIN nz.batch : nz.batch[j] \in WellFormedRecords(nz.entity))
    => /\ nz.result.exc = "none"
       /\ Len(nz.result.rows) = ItemsBefore(nz.entity, nz.batch, Len(nz.batch) + 1)
       /\ \A j \in DOMAIN nz.batch :
             LET items == ItemsOfGood(nz.entity, nz.batch[j])
                 base == ItemsBefore(nz.entity, nz.batch, j)
             IN  \A i \in DOMAIN items :
                    /\ CarriesParent(nz.entity, nz.batch[j], nz.result.rows[base + i])
                    /\ CarriesItem(nz.entity, items[i], nz.result.rows[base + i])

\* A batch of two well-formed transfers, one of them with several items, has
\* been expanded into at least three rows.
C4_Witness ==
    /\ NzDone
    /\ nz.entity = "movements"
    /\ Len(nz.batch) = 2
    /\ \A j \in DOMAIN nz.batch : nz.batch[j] \in WellFormedRecords("movements")
    /\ Len(ItemsOfGood("movements", nz.batch[1])) >= 2
    /\ Len(nz.result.rows) >= 3

\* C5 (as claimed): all rows one normalizer call returns have the same
\* columns in the same order, whichever source fields were absent.
C5_SameColumns ==
    (NzDone /\ nz.result.exc = "none")
    => \A a, b \in DOMAIN nz.result.rows :
          RowKeys(nz.result.rows[a]) = RowKeys(nz.result.rows[b])

\* Records that are dicts holding a list of k >= 1 dict items, with at most
\* one parent-level or item-level field missing, null or of the wrong type.
FaultyOrGood(entity) == WellFormedRecords(entity) \cup FaultyFieldRecords(entity)

\* C6 (as claimed): when fields of a batch's records are missing, null or of
\* the wrong type, the normalizer does not raise and still emits one row per
\* item of every record.
C6_FaultIsolated ==
    (/\ NzDone
     /\ nz.entity \in NestedEntities
     /\ \A j \in DOMAIN nz.batch : nz.batch[j] \in FaultyOrGood(nz.entity))
    => /\ nz.result.exc = "none"
       /\ Len(nz.result.rows) = ItemsBefore(nz.entity, nz.batch, Len(nz.batch) + 1)

(***************************************************************************)
(* The CSV sink: pd.DataFrame(data).to_csv(filename, mode, header,         *)
(* index=False).  A line is the sequence of its cells.                     *)
(***************************************************************************)
\* The frame's columns: the rows' keys in order of first appearance (the
\* first row that has the key, then the key's place in that row).
DataFrameColumns(rows) ==
    LET keys == UNION { { rows[i][j].k : j \in DOMAIN rows[i] } : i \in DOMAIN rows }
        FirstRow(k) == CHOOSE i \in DOMAIN rows :
                          /\ RowHas(rows[i], k)
                          /\ \A j \in 1..(i - 1) : ~RowHas(rows[j], k)
        Place(k) == CHOOSE j \in DOMAIN rows[FirstRow(k)] : rows[FirstRow(k)][j].k = k
        Before(a, b) == \/ FirstRow(a) < FirstRow(b)
                        \/ FirstRow(a) = FirstRow(b) /\ Place(a) < Place(b)
    IN  [c \in 1..Cardinality(keys) |->
            CHOOSE k \in keys : Cardinality({ o \in keys : Before(o, k) }) = c - 1]

\* A cell as to_csv writes it: None and a missing key are the empty field.
CsvCell(v) ==
    CASE v.t = "null" -> ""
      [] v.t = "str"  -> v.v
      [] OTHER        -> "<object>"

CsvLine(cols, row) ==
    [c \in DOMAIN cols |->
        IF RowHas(row, cols[c]) THEN CsvCell(RowGet(row, cols[c])) ELSE ""]

CsvLines(rows, header) ==
    LET cols == DataFrameColumns(rows) IN
    (IF header THEN <<cols>> ELSE <<>>)
    \o [i \in DOMAIN rows |-> CsvLine(cols, rows[i])]

\* save_batch_to_csv when to_csv succeeds: mode 'w' with a header for the
\* first batch, mode 'a' without a header otherwise.
\* save_batch_to_csv_AlwaysWrite: mode 'w' whatever is_first_batch is.
save_batch_to_csv_AlwaysWrite(data, f, is_first_batch) ==
    [exists |-> TRUE, lines |-> CsvLines(data, is_first_batch)]

\* save_batch_to_csv_AlwaysHeader: header=True whatever is_first_batch is.
save_batch_to_csv_AlwaysHeader(data, f, is_first_batch) ==
    [exists |-> TRUE,
     lines |-> IF is_first_batch THEN CsvLines(data, TRUE)
               ELSE f.lines \o CsvLines(data, TRUE)]

save_batch_to_csv(data, f, is_first_batch) ==
    [exists |-> TRUE,
     lines |-> IF is_first_batch THEN CsvLines(data, TRUE)
               ELSE f.lines \o CsvLines(data, FALSE)]

\* save_to_csv when to_csv succeeds: the whole file written anew, under a
\* header.  The scripts define it and call it nowhere; SpecSink calls it.
save_to_csv(data, f) == [exists |-> TRUE, lines |-> CsvLines(data, TRUE)]

\* The write that stops part-way stops within the first MaxPartialLines
\* lines.
MaxPartialLines == 2

\* What a write of `lines` that stops part-way has put down: the first
\* lines whole (none or some of them), and possibly the next line cut
\* short after one of its cells.
PartialLines(lines) ==
    LET most == IF Len(lines) < MaxPartialLines THEN Len(lines) ELSE MaxPartialLines
    IN  { SubSeq(lines, 1, k) : k \in 0..most }
        \cup UNION { { Append(SubSeq(lines, 1, k - 1), SubSeq(lines[k], 1, c)) :
                         c \in 1..(Len(lines[k]) - 1) } : k \in 1..most }

\* The artifact after to_csv raised: the open failed (nothing changed), or
\* the file was opened (mode 'w' truncates it, mode 'a' creates it) and the
\* write failed at once or part-way through the lines of `data`.
FileAfterFailedSave(data, f, is_first_batch) ==
    LET base == IF is_first_batch THEN <<>> ELSE f.lines
    IN  {f} \cup { [exists |-> TRUE, lines |-> base \o p] :
                     p \in PartialLines(CsvLines(data, is_first_batch)) }

(***************************************************************************)
(* The source API: `total` records; the records of the first page are of   *)
(* one kind, those of the later pages of another.  A request answers with  *)
(* the records at the requested offset, at most BATCH_SIZE of them.        *)
(***************************************************************************)
PageKinds(entity) ==
    CASE entity = "inventory" -> { GoodItem, DictWithout(GoodItem, "images") }
      [] entity = "movements" ->
           { Parent(entity, 1, ItemList(1)), Parent(entity, 1, EmptyList),
             DictWithout(Parent(entity, 1, EmptyList), "items") }
      [] entity = "purchases" ->
           { Parent(entity, 1, ItemList(1)), Parent(entity, 1, EmptyList), Null }
      [] entity = "sales" ->
           { Parent(entity, 1, ItemList(1)), Parent(entity, 1, EmptyList),
             DictWith(Parent(entity, 1, ItemList(1)), "warehouse", Null) }

\* The i-th record of the source: its kind, stamped with its position.
SourceRecord(src, entity, i) ==
    LET kind == IF i <= BATCH_SIZE THEN src.first ELSE src.rest
        key  == IF entity = "movements" THEN "date" ELSE "id"
    IN  IF kind.t = "dict" THEN DictWith(kind, key, S(ToString(i))) ELSE kind

PageAt(src, entity, start) ==
    LET left == src.total - start
        n    == IF left <= 0 THEN 0 ELSE IF left < BATCH_SIZE THEN left ELSE BATCH_SIZE
    IN  [j \in 1..n |-> SourceRecord(src, entity, start + j)]

Sources(entity) ==
    [total : 0..MaxTotal, first : PageKinds(entity), rest : PageKinds(entity)]

(***************************************************************************)
(* The output file an earlier run of the same script left behind.          *)
(***************************************************************************)
FullColumns(entity) ==
    CASE entity = "inventory" -> RowKeys(ItemRow(GoodItem))
      [] entity = "movements" ->
           RowKeys(TransferItemRow(TransferInfo(Null), Null))
      [] entity = "purchases" -> RowKeys(PurchaseItemRow(Null, Null, Null, EmptyDict))
      [] entity = "sales"     -> RowKeys(InvoiceItemRow(Null, Null, Null, EmptyDict))

StaleFile(entity) ==
    [exists |-> TRUE,
     lines |-> << FullColumns(entity),
                  [c \in DOMAIN FullColumns(entity) |-> "old"] >>]

(***************************************************************************)
(* SpecSink: save_to_csv called on the rows a normalizer returned, the     *)
(* output file being absent or left by an earlier run.                     *)
(***************************************************************************)
InitSink ==
    /\ \E e \in Entities : \E b \in RawBatches(e) :
          /\ nz = [entity |-> e, batch |-> b, phase |-> "ready",
                   result |-> Returned(<<>>)]
          /\ file \in {FileIdle, StaleFile(e)}
    /\ run = RunIdle
    /\ up = UpIdle
    /\ up2 = UpIdle
    /\ bq = WhIdle
    /\ co = CoIdle

\* save_to_csv(data, OUTPUT_FILE): to_csv writes the file, or it raises and
\* the handler logs and re-raises.
SaveToCsv ==
    /\ nz.phase = "done"
    /\ nz.result.exc = "none"
    /\ \/ /\ file' = save_to_csv(nz.result.rows, file)
          /\ nz' = [nz EXCEPT !.phase = "saved"]
       \/ /\ file' \in FileAfterFailedSave(nz.result.rows, file, TRUE)
          /\ nz' = [nz EXCEPT !.phase = "save_failed"]
    /\ UNCHANGED <<run, up, up2, bq, co>>

NextSink ==
    \/ NextNormalize
    \/ SaveToCsv

SpecSink == InitSink /\ [][NextSink]_vars

(***************************************************************************)
(* The fetch loop (fetch_items_data, fetch_warehouse_transfers_data,       *)
(* fetch_purchase_orders_data, fetch_invoice_data), one step per           *)
(* statement group.                                                        *)
(*   pc: "fetch" -> "process" -> "save" -> "advance" -> "fetch" | ...      *)
(*       "returned" (the loop was left by break), "failed" (an exception   *)
(*       left the function).                                               *)
(***************************************************************************)
InitRun(entity, src) ==
    [entity |-> entity, source |-> src, pc |-> "fetch", start |-> 0,
     batch_data |-> <<>>, processed_batch |-> <<>>,
     fetched |-> 0, fetches |-> 0, rows |-> 0, saves |-> 0, error |-> "none"]

Init ==
    /\ \E e \in Entities : \E src \in Sources(e) :
          /\ run = InitRun(e, src)
          /\ file \in {FileIdle, StaleFile(e)}
    /\ nz = NzIdle
    /\ up = UpIdle
    /\ up2 = UpIdle
    /\ bq = WhIdle
    /\ co = CoIdle

\* except requests.RequestException / except ValueError: log and raise.
\* OnFetchError_Swallow: the handler logs and the loop goes on.
OnFetchError_Swallow(r, exc) ==
    [r EXCEPT !.error = exc, !.fetches = @ + 1, !.pc = "advance"]

OnFetchError(r, exc) ==
    [r EXCEPT !.error = exc, !.fetches = @ + 1, !.pc = "failed"]

\* The request, raise_for_status and response.json(); an empty batch breaks.
Request ==
    /\ run.pc = "fetch"
    /\ \E outcome \in {"ok", "RequestException", "ValueError"} :
          IF outcome = "ok"
          THEN LET batch_data == PageAt(run.source, run.entity, run.start) IN
               run' = [run EXCEPT
                         !.fetches = @ + 1,
                         !.batch_data = batch_data,
                         !.fetched = @ + Len(batch_data),
                         !.pc = IF Len(batch_data) = 0 THEN "returned" ELSE "process"]
          ELSE run' = OnFetchError(run, outcome)
    /\ UNCHANGED <<nz, file, up, up2, bq, co>>

\* processed_batch = process_..._data(batch_data); an exception the
\* normalizer lets out is none the loop handles other than by re-raising.
Process ==
    /\ run.pc = "process"
    /\ LET r == Normalize(run.entity, run.batch_data) IN
       run' = IF r.exc # "none"
              THEN [run EXCEPT !.error = r.exc, !.pc = "failed"]
              ELSE [run EXCEPT !.processed_batch = r.rows,
                               !.rows = @ + Len(r.rows),
                               !.pc = IF Len(r.rows) > 0 THEN "save" ELSE "advance"]
    /\ UNCHANGED <<nz, file, up, up2, bq, co>>

\* save_batch_to_csv's handler: log and raise.
\* OnSaveError_Swallow: the handler logs and returns.
OnSaveError_Swallow(r) == [r EXCEPT !.error = "OSError", !.pc = "advance"]

OnSaveError(r) == [r EXCEPT !.error = "OSError", !.pc = "failed"]

\* if processed_batch: save_batch_to_csv(processed_batch, OUTPUT_FILE, start == 0)
Save ==
    /\ run.pc = "save"
    /\ \/ /\ file' = save_batch_to_csv(run.processed_batch, file, run.start = 0)
          /\ run' = [run EXCEPT !.saves = @ + 1, !.pc = "advance"]
       \/ /\ file' \in FileAfterFailedSave(run.processed_batch, file, run.start = 0)
          /\ run' = OnSaveError(run)
    /\ UNCHANGED <<nz, up, up2, bq, co>>

\* if len(batch_data) < BATCH_SIZE: break
\* IsLastPage_OffByOne: the comparison written <=.
\* IsLastPage_Never: the test left out, the loop ending on an empty page only.
IsLastPage_OffByOne(batch_data) == Len(batch_data) <= BATCH_SIZE

IsLastPage_Never(batch_data) == FALSE

IsLastPage(batch_data) == Len(batch_data) < BATCH_SIZE

\* start += BATCH_SIZE
\* NextStart_PageNumber: the offset advanced as if it were a page number.
NextStart_PageNumber(start) == start + 1

NextStart(start) == start + BATCH_SIZE

\* The partial-batch test, then start += BATCH_SIZE.
Advance ==
    /\ run.pc = "advance"
    /\ run' = IF IsLastPage(run.batch_data)
              THEN [run EXCEPT !.pc = "returned"]
              ELSE [run EXCEPT !.start = NextStart(@), !.pc = "fetch"]
    /\ UNCHANGED <<nz, file, up, up2, bq, co>>

Next ==
    \/ Request
    \/ Process
    \/ Save
    \/ Advance

Spec == Init /\ [][Next]_vars

(***************************************************************************)
(* The BigQuery loader.  Identifiers are sequences of characters, so that  *)
(* table_id.split('.') and table_name.lower() are computed, not assumed.   *)
(***************************************************************************)
NameWarehouseMovements == <<"w", "a", "r", "e", "h", "o", "u", "s", "e", "_", "m", "o", "v", "e", "m", "e", "n", "t", "s">>

NameInventory == <<"i", "n", "v", "e", "n", "t", "o", "r", "y">>

NameSales == <<"s", "a", "l", "e", "s">>

NamePurchases == <<"p", "u", "r", "c", "h", "a", "s", "e", "s">>

SchemaField(name, type) == [name |-> name, type |-> type]

SchemaWarehouseMovements ==
    << SchemaField("movement_date", "DATE"),
       SchemaField("warehouse_origin", "STRING"),
       SchemaField("warehouse_destination", "STRING"),
       SchemaField("item_id", "INTEGER"),
       SchemaField("item_name", "STRING"),
       SchemaField("quantity", "INTEGER") >>

SchemaInventory ==
    << SchemaField("item_id", "INTEGER"),
       SchemaField("item_name", "STRING"),
       SchemaField("warehouse", "STRING"),
       SchemaField("quantity", "INTEGER"),
       SchemaField("last_updated", "TIMESTAMP") >>

SchemaSales ==
    << SchemaField("sale_date", "DATE"),
       SchemaField("item_id", "INTEGER"),
       SchemaField("item_name", "STRING"),
       SchemaField("quantity", "INTEGER"),
       SchemaField("unit_price", "FLOAT"),
       SchemaField("total_amount", "FLOAT") >>

SchemaPurchases ==
    << SchemaField("purchase_date", "DATE"),
       SchemaField("item_id", "INTEGER"),
       SchemaField("item_name", "STRING"),
       SchemaField("quantity", "INTEGER"),
       SchemaField("unit_cost", "FLOAT"),
       SchemaField("total_cost", "FLOAT"),
       SchemaField("supplier", "STRING") >>

\* str.lower() on the letters the identifiers use.
LowerChar(c) ==
    CASE c = "A" -> "a" [] c = "B" -> "b" [] c = "C" -> "c" [] c = "D" -> "d"
      [] c = "E" -> "e" [] c = "F" -> "f" [] c = "G" -> "g" [] c = "H" -> "h"
      [] c = "I" -> "i" [] c = "J" -> "j" [] c = "K" -> "k" [] c = "L" -> "l"
      [] c = "M" -> "m" [] c = "N" -> "n" [] c = "O" -> "o" [] c = "P" -> "p"
      [] c = "Q" -> "q" [] c = "R" -> "r" [] c = "S" -> "s" [] c = "T" -> "t"
      [] c = "U" -> "u" [] c = "V" -> "v" [] c = "W" -> "w" [] c = "X" -> "x"
      [] c = "Y" -> "y" [] c = "Z" -> "z" [] OTHER -> c

Lower(str) == [i \in DOMAIN str |-> LowerChar(str[i])]

\* schemas.get(key): the registered schema as a list, or None.
SchemasGet(key) ==
    CASE key = NameWarehouseMovements -> L(SchemaWarehouseMovements)
      [] key = NameInventory          -> L(SchemaInventory)
      [] key = NameSales              -> L(SchemaSales)
      [] key = NamePurchases          -> L(SchemaPurchases)
      [] OTHER                        -> Null

\* get_predefined_schema with the lookup made on the name as given.
get_predefined_schema_CaseSensitive(table_name) == SchemasGet(table_name)

get_predefined_schema(table_name) == SchemasGet(Lower(table_name))

\* str.split(sep): the pieces between the separators.
RECURSIVE SplitFrom(_, _, _, _)
SplitFrom(str, sep, i, piece) ==
    IF i > Len(str) THEN <<piece>>
    ELSE IF str[i] = sep THEN <<piece>> \o SplitFrom(str, sep, i + 1, <<>>)
         ELSE SplitFrom(str, sep, i + 1, Append(piece, str[i]))

Split(str, sep) == SplitFrom(str, sep, 1, <<>>)

\* The f-string "a.b".
Dotted(a, b) == a \o <<".">> \o b

\* infer_schema_from_csv: one field per column of the sample, typed by the
\* column's dtype; any exception (a file with no columns among them) gives [].
FieldTypeOf(dtype) ==
    CASE dtype = "int64"          -> "INTEGER"
      [] dtype = "float64"        -> "FLOAT"
      [] dtype = "bool"           -> "BOOLEAN"
      [] dtype = "datetime64[ns]" -> "TIMESTAMP"
      [] OTHER                    -> "STRING"

infer_schema_from_csv(csv) ==
    IF Len(csv.columns) = 0 THEN EmptyList
    ELSE L([c \in DOMAIN csv.columns |->
               SchemaField(csv.columns[c].name, FieldTypeOf(csv.columns[c].dtype))])

(***************************************************************************)
(* The warehouse (BigQuery) as the loader sees it: the datasets that exist *)
(* and the row count of each table that exists.                            *)
(***************************************************************************)
MaxRows == 2

TableExists(w, table_id) == \E t \in w.tables : t.id = table_id

TableRows(w, table_id) ==
    IF TableExists(w, table_id)
    THEN (CHOOSE t \in w.tables : t.id = table_id).rows
    ELSE 0

SetTableRows(w, table_id, n) ==
    [w EXCEPT !.tables = { t \in @ : t.id # table_id }
                         \cup { [id |-> table_id, rows |-> n] }]

\* The rows a load job reads from a file: its lines less the leading rows
\* the job skips (a file holds one header line and csv.rows data lines).
DataRows(csv, skip_leading_rows) ==
    IF Len(csv.columns) = 0 THEN 0
    ELSE IF 1 + csv.rows > skip_leading_rows
         THEN 1 + csv.rows - skip_leading_rows
         ELSE 0

\* What a load job does to its destination table.  The job fails, leaving
\* the table as it was, when the table's dataset does not exist, when the
\* disposition is WRITE_EMPTY and the table holds rows, or for a reason of
\* its own (malformed rows, schema mismatch); otherwise WRITE_TRUNCATE
\* replaces the rows and WRITE_APPEND adds to them.
\* LoadJobOutcomes_AppendAlways: every disposition adds to the rows.
LoadJobOutcomes_AppendAlways(w, job, table_id, dataset_ref, m) ==
    LET n == TableRows(w, table_id)
        refused == dataset_ref \notin w.datasets
    IN  { [ok |-> FALSE, wh |-> w] }
        \cup (IF refused THEN {}
              ELSE { [ok |-> TRUE, wh |-> SetTableRows(w, table_id, n + m)] })

LoadJobOutcomes(w, job, table_id, dataset_ref, m) ==
    LET n == TableRows(w, table_id)
        refused == \/ dataset_ref \notin w.datasets
                   \/ job.write_disposition = "WRITE_EMPTY" /\ n > 0
        after == IF job.write_disposition = "WRITE_APPEND" THEN n + m ELSE m
    IN  { [ok |-> FALSE, wh |-> w] }
        \cup (IF refused THEN {}
              ELSE { [ok |-> TRUE, wh |-> SetTableRows(w, table_id, after)] })

(***************************************************************************)
(* upload_csv_to_table, one step per statement group.                      *)
(*   pc: "start" -> "parse" -> "dataset" (-> "create") -> "schema" ->      *)
(*       "submit" -> "wait" -> "info" -> "returned"                        *)
(* Every exception is caught by the function's handlers and returns False. *)
(* A step is an operator from the call's state u and the warehouse w to    *)
(* the set of outcomes [u, wh] the step can have.                          *)
(***************************************************************************)
\* The schema the "Determine schema" block leaves in `schema`, and whether
\* the function goes on (ok) or returns False there.
\* ResolveSchema_Unchecked: the inferred schema is used without the
\* `if not schema` test.
ResolveSchema_Unchecked(schema, table_name, auto_detect_schema, csv) ==
    IF schema # Null THEN [ok |-> TRUE, schema |-> schema]
    ELSE LET predefined == get_predefined_schema(table_name) IN
         IF predefined = Null /\ ~auto_detect_schema
         THEN [ok |-> TRUE, schema |-> infer_schema_from_csv(csv)]
         ELSE [ok |-> TRUE, schema |-> predefined]

ResolveSchema(schema, table_name, auto_detect_schema, csv) ==
    IF schema # Null THEN [ok |-> TRUE, schema |-> schema]
    ELSE LET predefined == get_predefined_schema(table_name) IN
         IF predefined = Null /\ ~auto_detect_schema
         THEN LET inferred == infer_schema_from_csv(csv) IN
              [ok |-> Truthy(inferred), schema |-> inferred]
         ELSE [ok |-> TRUE, schema |-> predefined]

\* bigquery.LoadJobConfig(...): autodetect and schema as the call computes
\* them, write_disposition and skip_leading_rows as the caller gave them.
\* LoadJobConfig_AutodetectAsGiven: autodetect=auto_detect_schema.
LoadJobConfig_AutodetectAsGiven(schema, auto_detect_schema, write_disposition, skip_leading_rows) ==
    [autodetect |-> auto_detect_schema,
     schema |-> IF Truthy(schema) THEN schema ELSE Null,
     write_disposition |-> write_disposition,
     skip_leading_rows |-> skip_leading_rows]

\* LoadJobConfig_DefaultDisposition: write_disposition left at its default.
LoadJobConfig_DefaultDisposition(schema, auto_detect_schema, write_disposition, skip_leading_rows) ==
    [autodetect |-> auto_detect_schema /\ schema = Null,
     schema |-> IF Truthy(schema) THEN schema ELSE Null,
     write_disposition |-> "WRITE_APPEND",
     skip_leading_rows |-> skip_leading_rows]

LoadJobConfig(schema, auto_detect_schema, write_disposition, skip_leading_rows) ==
    [autodetect |-> auto_detect_schema /\ schema = Null,
     schema |-> IF Truthy(schema) THEN schema ELSE Null,
     write_disposition |-> write_disposition,
     skip_leading_rows |-> skip_leading_rows]

NoJob == [autodetect |-> FALSE, schema |-> Null, write_disposition |-> "none",
          skip_leading_rows |-> 0]

ProjectP == <<"p">>

ProjectQ == <<"q">>

DatasetDs == <<"d", "s">>

TableNames ==
    { NameSales, NamePurchases, NameWarehouseMovements,
      <<"S", "a", "l", "e", "s">>, <<"I", "N", "V", "E", "N", "T", "O", "R", "Y">>, <<"o", "t", "h", "e", "r">> }

TableIds ==
    { Dotted(Dotted(ProjectP, DatasetDs), n) : n \in TableNames }
    \cup { Dotted(Dotted(ProjectQ, DatasetDs), NameSales),
           Dotted(ProjectP, DatasetDs),
           Dotted(Dotted(Dotted(ProjectP, DatasetDs), NameSales), <<"x">>) }

TwoColumns ==
    << [name |-> "item_id", dtype |-> "int64"],
       [name |-> "item_name", dtype |-> "object"] >>

CsvFiles ==
    { [exists |-> FALSE, columns |-> <<>>, rows |-> 0],
      [exists |-> TRUE, columns |-> <<>>, rows |-> 0] }
    \cup { [exists |-> TRUE, columns |-> TwoColumns, rows |-> m] : m \in 0..MaxRows }

SchemaArgs == { Null, EmptyList, L(<<SchemaField("item_id", "INTEGER")>>) }

WriteDispositions == { "WRITE_APPEND", "WRITE_TRUNCATE", "WRITE_EMPTY" }

\* The warehouses a call for table_id can meet: the client's dataset and
\* the table's dataset exist or not; the table exists, with some rows,
\* only in a dataset that exists.
Warehouses(table_id) ==
    LET parts == Split(table_id, ".")
        mine == Dotted(ProjectP, DatasetDs)
        dss == IF Len(parts) = 3
               THEN { {}, {mine}, {mine, Dotted(parts[1], parts[2])} }
               ELSE { {}, {mine} }
    IN  { [datasets |-> ds, tables |-> {}] : ds \in dss }
        \cup { [datasets |-> ds, tables |-> {[id |-> table_id, rows |-> n]}] :
                  ds \in { d \in dss : Len(parts) = 3
                                        /\ Dotted(parts[1], parts[2]) \in d },
                  n \in 0..MaxRows }

\* skip_leading_rows: int = 1
DefaultSkipLeadingRows == 1

\* The state of a call as it is entered.
Call(csv, table_id, schema, auto_detect_schema, write_disposition, skip_leading_rows) ==
    [pc |-> "start", csv_file |-> csv, table_id |-> table_id,
     schema_arg |-> schema, auto_detect_schema |-> auto_detect_schema,
     write_disposition |-> write_disposition,
     skip_leading_rows |-> skip_leading_rows, client_project |-> ProjectP,
     parts |-> <<>>, schema |-> schema, job |-> NoJob, submitted |-> FALSE,
     calls |-> <<>>, num_rows |-> 0, result |-> "none"]

\* skip_leading_rows is drawn from: no line skipped, the header line
\* skipped (the default), the header and a data line skipped.
InitUpload ==
    /\ \E csv \in CsvFiles, tid \in TableIds, sch \in SchemaArgs,
          auto \in BOOLEAN, wd \in WriteDispositions,
          skip \in {0, DefaultSkipLeadingRows, 2} :
          /\ up = Call(csv, tid, sch, auto, wd, skip)
          /\ bq \in Warehouses(tid)
    /\ up2 = UpIdle
    /\ co = CoIdle
    /\ nz = NzIdle
    /\ run = RunIdle
    /\ file = FileIdle

Out(u, w) == [u |-> u, wh |-> w]

\* return False, from the body or from one of the two handlers.
\* ReturnFalse_Raise: the exception leaves the function.
ReturnFalse_Raise(u) == [u EXCEPT !.pc = "raised", !.result = "none"]

ReturnFalse(u) == [u EXCEPT !.pc = "returned", !.result = "False"]

WarehouseCall(op, arg, outcome) == [op |-> op, arg |-> arg, outcome |-> outcome]

\* if not Path(csv_file).exists(): return False
CheckFileOut(u, w) ==
    { Out(IF u.csv_file.exists THEN [u EXCEPT !.pc = "parse"] ELSE ReturnFalse(u), w) }

\* if len(parts) != 3
\* HasThreeParts_AtLeast: the test written len(parts) < 3.
HasThreeParts_AtLeast(parts) == Len(parts) >= 3

HasThreeParts(parts) == Len(parts) = 3

\* parts = table_id.split('.'); if len(parts) != 3: return False
ParseTableIdOut(u, w) ==
    LET parts == Split(u.table_id, ".") IN
    { Out(IF ~HasThreeParts(parts) THEN ReturnFalse([u EXCEPT !.parts = parts])
          ELSE [u EXCEPT !.parts = parts, !.pc = "dataset"], w) }

\* create_dataset_if_not_exists, the lookup: get_dataset on
\* self.project_id's dataset; NotFound leads to the creation, any other
\* exception to upload_csv_to_table's handler.
GetDatasetOut(u, w) ==
    LET dataset_ref == Dotted(u.client_project, u.parts[2])
        looked(outcome) ==
            [u EXCEPT !.calls = Append(@, WarehouseCall("get_dataset", dataset_ref, outcome))]
    IN  (IF dataset_ref \in w.datasets
         THEN { Out([looked("ok") EXCEPT !.pc = "schema"], w) }
         ELSE { Out([looked("NotFound") EXCEPT !.pc = "create"], w) })
        \cup { Out(ReturnFalse(looked("error")), w) }

\* create_dataset_if_not_exists, the NotFound handler: create_dataset
\* without exists_ok.  A dataset that has come to exist since the lookup
\* makes it raise Conflict; that and any other exception leave the handler
\* and are caught by upload_csv_to_table, which returns False.
CreateDatasetOut(u, w) ==
    LET dataset_ref == Dotted(u.client_project, u.parts[2])
        created(outcome) ==
            [u EXCEPT !.calls = Append(@, WarehouseCall("create_dataset", dataset_ref, outcome))]
    IN  IF dataset_ref \in w.datasets
        THEN { Out(ReturnFalse(created("Conflict")), w) }
        ELSE { Out([created("ok") EXCEPT !.pc = "schema"],
                   [w EXCEPT !.datasets = @ \cup {dataset_ref}]),
               Out(ReturnFalse(created("error")), w) }

\* The "Determine schema" block.
DetermineSchemaOut(u, w) ==
    LET r == ResolveSchema(u.schema_arg, u.parts[3], u.auto_detect_schema, u.csv_file)
    IN  { Out(IF r.ok THEN [u EXCEPT !.schema = r.schema, !.pc = "submit"]
              ELSE ReturnFalse([u EXCEPT !.schema = r.schema]), w) }

\* job_config = LoadJobConfig(...); open(csv_file, "rb"), which may raise
\* (the path is a directory, unreadable, or gone since the check); then
\* load_table_from_file(...), which may raise.
SubmitLoadOut(u, w) ==
    LET cfg == LoadJobConfig(u.schema, u.auto_detect_schema, u.write_disposition,
                             u.skip_leading_rows)
        called(outcome) ==
            [u EXCEPT !.job = cfg,
                      !.calls = Append(@, WarehouseCall("load_table_from_file", u.table_id, outcome))]
    IN  { Out([called("ok") EXCEPT !.submitted = TRUE, !.pc = "wait"], w),
          Out(ReturnFalse(called("error")), w),
          \* open(csv_file, "rb") raised: no call is made
          Out(ReturnFalse([u EXCEPT !.job = cfg]), w) }

\* job.result(): the job has run; it returns, or raises BadRequest or
\* another exception when the job failed.
WaitJobOut(u, w) ==
    LET js == LoadJobOutcomes(w, u.job, u.table_id, Dotted(u.parts[1], u.parts[2]),
                              DataRows(u.csv_file, u.job.skip_leading_rows))
        waited(outcome) ==
            [u EXCEPT !.calls = Append(@, WarehouseCall("job.result", u.table_id, outcome))]
    IN  { Out(IF j.ok THEN [waited("ok") EXCEPT !.pc = "info"]
              ELSE ReturnFalse(waited("error")), j.wh) : j \in js }

\* table = self.client.get_table(table_ref); print table.num_rows; return True
\* GetTableOut_Delta: the count reported is that of the rows this job loaded.
GetTableOut_Delta(u, w) ==
    LET called(outcome) ==
            [u EXCEPT !.calls = Append(@, WarehouseCall("get_table", u.table_id, outcome))]
    IN  { Out([called("ok") EXCEPT !.num_rows = DataRows(u.csv_file, u.job.skip_leading_rows),
                                   !.pc = "returned", !.result = "True"], w),
          Out(ReturnFalse(called("error")), w) }

GetTableOut(u, w) ==
    LET called(outcome) ==
            [u EXCEPT !.calls = Append(@, WarehouseCall("get_table", u.table_id, outcome))]
    IN  { Out([called("ok") EXCEPT !.num_rows = TableRows(w, u.table_id),
                                   !.pc = "returned", !.result = "True"], w),
          Out(ReturnFalse(called("error")), w) }

\* The step a call at u.pc takes.
StepOut(u, w) ==
    CASE u.pc = "start"   -> CheckFileOut(u, w)
      [] u.pc = "parse"   -> ParseTableIdOut(u, w)
      [] u.pc = "dataset" -> GetDatasetOut(u, w)
      [] u.pc = "create"  -> CreateDatasetOut(u, w)
      [] u.pc = "schema"  -> DetermineSchemaOut(u, w)
      [] u.pc = "submit"  -> SubmitLoadOut(u, w)
      [] u.pc = "wait"    -> WaitJobOut(u, w)
      [] u.pc = "info"    -> GetTableOut(u, w)
      [] OTHER            -> {}

\* The call `up` takes one of the outcomes of a step.
Take(outs) ==
    /\ \E o \in outs : up' = o.u /\ bq' = o.wh
    /\ UNCHANGED <<nz, run, file, up2, co>>

CheckFile == up.pc = "start" /\ Take(CheckFileOut(up, bq))

ParseTableId == up.pc = "parse" /\ Take(ParseTableIdOut(up, bq))

GetDataset == up.pc = "dataset" /\ Take(GetDatasetOut(up, bq))

CreateDataset == up.pc = "create" /\ Take(CreateDatasetOut(up, bq))

DetermineSchema == up.pc = "schema" /\ Take(DetermineSchemaOut(up, bq))

SubmitLoad == up.pc = "submit" /\ Take(SubmitLoadOut(up, bq))

WaitJob == up.pc = "wait" /\ Take(WaitJobOut(up, bq))

GetTable == up.pc = "info" /\ Take(GetTableOut(up, bq))

NextUpload ==
    \/ CheckFile
    \/ ParseTableId
    \/ GetDataset
    \/ CreateDataset
    \/ DetermineSchema
    \/ SubmitLoad
    \/ WaitJob
    \/ GetTable

SpecUpload == InitUpload /\ [][NextUpload]_vars

(***************************************************************************)
(* Properties of the fetch loop (checked under Spec).                      *)
(***************************************************************************)
Ceil(n, d) == (n + d - 1) \div d

\* C1 (as claimed): a run that leaves the loop has issued exactly
\* ceil(totalRecords / pageSize) fetch calls, for every totalRecords >= 0.
C1_CeilFetches ==
    run.pc = "returned" => run.fetches = Ceil(run.source.total, BATCH_SIZE)

\* C1 (amended): a run that leaves the loop has issued exactly
\* floor(totalRecords / pageSize) + 1 fetch calls - ceil(totalRecords /
\* pageSize) when totalRecords is not a multiple of pageSize, one more (the
\* final, empty page) when it is, 0 included - and the last page fetched is
\* the first one shorter than pageSize, every record having been fetched.
C1_FetchCount ==
    run.pc = "returned" =>
       /\ run.fetches = (run.source.total \div BATCH_SIZE) + 1
       /\ (run.source.total % BATCH_SIZE # 0
             => run.fetches = Ceil(run.source.total, BATCH_SIZE))
       /\ (run.source.total % BATCH_SIZE = 0
             => run.fetches = Ceil(run.source.total, BATCH_SIZE) + 1)
       /\ Len(run.batch_data) < BATCH_SIZE
       /\ run.start = BATCH_SIZE * (run.fetches - 1)
       /\ run.fetched = run.source.total

\* A source holding exactly two full pages has been read with three fetches.
C1_Witness ==
    /\ run.pc = "returned"
    /\ run.source.total = 2 * BATCH_SIZE
    /\ run.fetches = 3

ColumnNames(entity) == { FullColumns(entity)[c] : c \in DOMAIN FullColumns(entity) }

\* A header line: every cell is a column name of the entity.
IsHeaderLine(entity, line) ==
    /\ Len(line) > 0
    /\ \A c \in DOMAIN line : line[c] \in ColumnNames(entity)

\* C2 (as claimed): after a run that appended at least one batch, the
\* artifact's first line is the header and the header occurs exactly once.
C2_HeaderOnce ==
    (run.pc = "returned" /\ run.saves >= 1) =>
       /\ Len(file.lines) >= 1
       /\ IsHeaderLine(run.entity, file.lines[1])
       /\ Cardinality({ i \in DOMAIN file.lines :
                           IsHeaderLine(run.entity, file.lines[i]) }) = 1

FetchErrors == {"RequestException", "ValueError"}

\* C7: a transport or decode error on a page fetch ends the run as failed;
\* the failing fetch leaves the artifact as it was, and after it no fetch
\* and no append happens and the artifact does not change.
C7_FetchErrorFatal ==
    /\ [](run.error \in FetchErrors => run.pc = "failed")
    /\ [][(run.error = "none" /\ run'.error \in FetchErrors)
             => (file' = file /\ run'.saves = run.saves)]_vars
    /\ [][run.error \in FetchErrors
             => (file' = file /\ run'.fetches = run.fetches
                 /\ run'.saves = run.saves /\ run'.pc = "failed")]_vars

\* A fetch failed after an earlier batch had been written; the artifact
\* holds that batch.
C7_Witness ==
    /\ run.pc = "failed"
    /\ run.error \in FetchErrors
    /\ run.saves >= 1
    /\ Len(file.lines) = 1 + BATCH_SIZE

\* C8: a failure of save_batch_to_csv ends the run as failed: after it no
\* page is fetched, nothing is appended, and the run never returns.
C8_SaveErrorFatal ==
    /\ [](run.error = "OSError" => run.pc = "failed")
    /\ [][run.error = "OSError"
             => (file' = file /\ run'.fetches = run.fetches
                 /\ run'.saves = run.saves /\ run'.pc # "returned")]_vars

\* The write of a second batch failed while the source still had records.
C8_Witness ==
    /\ run.pc = "failed"
    /\ run.error = "OSError"
    /\ run.start = BATCH_SIZE
    /\ Len(run.batch_data) = BATCH_SIZE
    /\ run.source.total > 2 * BATCH_SIZE

\* The lines of the artifact that are not header lines.
DataLines(entity) ==
    { i \in DOMAIN file.lines : ~IsHeaderLine(entity, file.lines[i]) }

\* C16 (as claimed): an inventory run that returns has fetched as many
\* records as the pages held, and the artifact holds as many data lines as
\* normalized rows were produced; over pages of 30 and 12 records it has
\* made exactly 2 fetches and left 1 header line and 42 data lines.
C16_RowsAccounted ==
    (run.pc = "returned" /\ run.entity = "inventory") =>
       /\ run.fetched = run.source.total
       /\ Cardinality(DataLines(run.entity)) = run.rows
       /\ (run.source.total = BATCH_SIZE + 12)
             => /\ run.fetches = 2
                /\ Len(file.lines) = 1 + 42
                /\ IsHeaderLine(run.entity, file.lines[1])
                /\ Cardinality(DataLines(run.entity)) = 42

\* The accounting of an inventory run apart from what an earlier run left:
\* a run that returns has fetched as many records as the pages held and
\* produced one row per record; if it fetched any
\* record, the artifact is one header line followed by as many data lines
\* as rows were produced, and if it fetched none it has written nothing;
\* over pages of 30 and 12 records it has made exactly 2 fetches and left
\* 1 header line and 42 data lines.
C16_InventoryRows ==
    (run.pc = "returned" /\ run.entity = "inventory") =>
       /\ run.fetched = run.source.total
       /\ run.rows = run.fetched
       /\ run.fetched > 0
             => /\ Len(file.lines) = 1 + run.rows
                /\ IsHeaderLine(run.entity, file.lines[1])
                /\ Cardinality(DataLines(run.entity)) = run.rows
       /\ run.fetched = 0 => run.saves = 0
       /\ (run.source.total = BATCH_SIZE + 12)
             => /\ run.fetches = 2
                /\ Len(file.lines) = 1 + 42
                /\ IsHeaderLine(run.entity, file.lines[1])
                /\ Cardinality(DataLines(run.entity)) = 42

\* An inventory run over 42 records has returned after 2 fetches and 2
\* saves, the artifact holding 43 lines.
C16_Witness ==
    /\ run.pc = "returned"
    /\ run.entity = "inventory"
    /\ run.source.total = BATCH_SIZE + 12
    /\ run.fetches = 2
    /\ run.saves = 2
    /\ Len(file.lines) = 43

\* The lines to_csv writes for the rows of a batch, without a header.
RowLines(rows) ==
    LET cols == DataFrameColumns(rows) IN
    [i \in DOMAIN rows |-> CsvLine(cols, rows[i])]

\* C18: a call of save_batch_to_csv that succeeds with is_first_batch true
\* leaves an artifact that is one header line (the batch's columns)
\* followed by the batch's rows, nothing of the earlier content remaining;
\* with is_first_batch false it leaves the earlier content as it was,
\* followed by exactly the batch's rows, no header line among them.
C18_SinkContract ==
    [][(run.pc = "save" /\ run'.pc = "advance") =>
          LET rows == run.processed_batch
              old  == Len(file.lines)
          IN  /\ file'.exists
              /\ run.start = 0 =>
                    /\ Len(file'.lines) = 1 + Len(rows)
                    /\ file'.lines[1] = DataFrameColumns(rows)
                    /\ IsHeaderLine(run.entity, file'.lines[1])
                    /\ SubSeq(file'.lines, 2, 1 + Len(rows)) = RowLines(rows)
              /\ run.start # 0 =>
                    /\ Len(file'.lines) = old + Len(rows)
                    /\ SubSeq(file'.lines, 1, old) = file.lines
                    /\ SubSeq(file'.lines, old + 1, old + Len(rows)) = RowLines(rows)
                    /\ \A i \in (old + 1)..(old + Len(rows)) :
                          ~IsHeaderLine(run.entity, file'.lines[i])
      ]_vars

\* A second batch has been appended below the header and the full first
\* batch.
C18_Witness ==
    /\ run.pc = "advance"
    /\ run.start = BATCH_SIZE
    /\ run.saves = 2
    /\ Len(run.processed_batch) >= 1
    /\ Len(file.lines) = 1 + BATCH_SIZE + Len(run.processed_batch)

\* C20: the request that follows i earlier requests of the run carries
\* offset i * BATCH_SIZE (0 for the first); the offset changes only by
\* growing by exactly BATCH_SIZE, and only when the page just fetched was
\* full, has been normalized and its rows are the last lines of the
\* artifact; and a save writes a header line if and only if the offset of
\* its batch is 0.
C20_SequentialOffsets ==
    /\ [](run.fetches = 0 => run.start = 0)
    /\ [](run.pc = "fetch" => run.start = run.fetches * BATCH_SIZE)
    /\ [][run'.fetches # run.fetches
             => /\ run.pc = "fetch"
                /\ run'.fetches = run.fetches + 1
                /\ run'.start = run.start
                /\ run'.error = "none" =>
                      run'.batch_data = PageAt(run.source, run.entity,
                                               run.fetches * BATCH_SIZE)]_vars
    /\ [][run'.start # run.start
             => /\ run'.start = run.start + BATCH_SIZE
                /\ Len(run.batch_data) = BATCH_SIZE
                /\ Normalize(run.entity, run.batch_data) = Returned(run.processed_batch)
                /\ Len(file.lines) >= Len(run.processed_batch)
                /\ SubSeq(file.lines, Len(file.lines) - Len(run.processed_batch) + 1,
                          Len(file.lines)) = RowLines(run.processed_batch)
                /\ file' = file]_vars
    /\ [][(run.pc = "save" /\ run'.pc = "advance")
             => LET written ==
                       SubSeq(file'.lines,
                              Len(file'.lines) - Len(run.processed_batch),
                              Len(file'.lines))
                IN  (run.start = 0) =
                       (/\ Len(file'.lines) > Len(run.processed_batch)
                        /\ Len(file'.lines) = Len(written)
                        /\ IsHeaderLine(run.entity, written[1]))]_vars

\* The third request of a run is about to be made at offset 60, the two
\* full pages before it written under one header.
C20_Witness ==
    /\ run.pc = "fetch"
    /\ run.fetches = 2
    /\ run.start = 2 * BATCH_SIZE
    /\ run.saves = 2
    /\ Len(file.lines) >= 1 + 2 * BATCH_SIZE

(***************************************************************************)
(* Properties of the loader's schema resolution (checked under SpecUpload).*)
(***************************************************************************)
RegisteredNames == { NameWarehouseMovements, NameInventory, NameSales, NamePurchases }

\* The schema the registry holds for a name, compared without case.
RegisteredSchemaFor(name) ==
    CASE Lower(name) = NameWarehouseMovements -> SchemaWarehouseMovements
      [] Lower(name) = NameInventory          -> SchemaInventory
      [] Lower(name) = NameSales              -> SchemaSales
      [] Lower(name) = NamePurchases          -> SchemaPurchases

\* C9: a load job submitted for a call without an explicit schema, for a
\* table whose name is in the registry (case-insensitively), is configured
\* with the registered schema and autodetect = false, whatever
\* auto_detect_schema is.
C9_RegistryPrecedence ==
    (/\ up.submitted
     /\ up.schema_arg = Null
     /\ Lower(up.parts[3]) \in RegisteredNames)
    => /\ up.job.schema = L(RegisteredSchemaFor(up.parts[3]))
       /\ up.job.autodetect = FALSE

\* A job was submitted for table "INVENTORY" with auto_detect_schema = true.
C9_Witness ==
    /\ up.submitted
    /\ up.schema_arg = Null
    /\ up.auto_detect_schema
    /\ up.parts[3] # Lower(up.parts[3])
    /\ Lower(up.parts[3]) = NameInventory
    /\ up.job.schema = L(SchemaInventory)

\* C10 (as claimed): every submitted load job has exactly one schema source:
\* a non-empty schema with autodetect off, or autodetect on with no schema.
C10_ExactlyOneSource ==
    up.submitted =>
       \/ (up.job.schema # Null /\ Truthy(up.job.schema) /\ ~up.job.autodetect)
       \/ (up.job.schema = Null /\ up.job.autodetect)

(***************************************************************************)
(* SpecRace: two upload_csv_to_table calls of independent runs against the *)
(* same warehouse, their steps interleaved.                                *)
(***************************************************************************)
OneRowFile == [exists |-> TRUE, columns |-> TwoColumns, rows |-> 1]

InitRace ==
    /\ \E t2 \in {NameSales, NamePurchases}, auto \in BOOLEAN,
          wd \in {"WRITE_APPEND", "WRITE_TRUNCATE"} :
          /\ up = Call(OneRowFile, Dotted(Dotted(ProjectP, DatasetDs), NameSales),
                       Null, auto, wd, DefaultSkipLeadingRows)
          /\ up2 = Call(OneRowFile, Dotted(Dotted(ProjectP, DatasetDs), t2),
                        Null, auto, wd, DefaultSkipLeadingRows)
    /\ bq \in { [datasets |-> {}, tables |-> {}],
                [datasets |-> {Dotted(ProjectP, DatasetDs)}, tables |-> {}] }
    /\ co = CoIdle
    /\ nz = NzIdle
    /\ run = RunIdle
    /\ file = FileIdle

\* A step of the second call.
Rival ==
    /\ \E o \in StepOut(up2, bq) : up2' = o.u /\ bq' = o.wh
    /\ UNCHANGED <<nz, run, file, up, co>>

NextRace ==
    \/ NextUpload
    \/ Rival

SpecRace == InitRace /\ [][NextRace]_vars

LoadCalls(u) == { i \in DOMAIN u.calls : u.calls[i].op = "load_table_from_file" }

\* The call found the dataset absent and then failed to create it because
\* another call had created it in between.
LostRace(u) ==
    /\ u.pc # "idle"
    /\ \E i \in DOMAIN u.calls :
          u.calls[i].op = "create_dataset" /\ u.calls[i].outcome = "Conflict"

\* C13 (as claimed): a call that loses the race to create the dataset takes
\* the already-exists outcome as success and goes on to submit its load
\* job: it never returns without having called load_table_from_file.
C13_RaceLoserGoesOn ==
    \A u \in {up, up2} :
       LostRace(u) => ~(u.pc = "returned" /\ LoadCalls(u) = {})

(***************************************************************************)
(* The batch coordinator (batch_upload_csvs): for each entry of            *)
(* TABLE_MAPPING, in order, the file test and one upload_csv_to_table call *)
(* (the loader's own steps, taken by `up`), then the summary.              *)
(*   pc: "loop" -> ("call" -> "loop")* -> "summary" -> "returned"          *)
(* co.out is what the function prints, one record per line: the message,   *)
(* the files the line names and the number it gives.                       *)
(***************************************************************************)
PROJECT_ID == ProjectP

DATASET_ID == <<"o", "p", "t", "i", "s", "t", "o", "c", "k">>

DEFAULT_WRITE_DISPOSITION == "WRITE_APPEND"

TABLE_MAPPING ==
    << [csv_file |-> "warehouse_movements.csv", table_name |-> NameWarehouseMovements],
       [csv_file |-> "items_inventory.csv", table_name |-> NameInventory],
       [csv_file |-> "purchase_orders.csv", table_name |-> NamePurchases],
       [csv_file |-> "factura_items.csv", table_name |-> NameSales] >>

\* table_id = f"{PROJECT_ID}.{DATASET_ID}.{table_name}"
BatchTableId(table_name) == Dotted(Dotted(PROJECT_ID, DATASET_ID), table_name)

Line(msg, files, n) == [msg |-> msg, files |-> files, n |-> n]

MissingFile == [exists |-> FALSE, columns |-> <<>>, rows |-> 0]

InitBatch ==
    /\ \E fs \in [DOMAIN TABLE_MAPPING -> {MissingFile, OneRowFile}] :
          co = [pc |-> "init", i |-> 1, files |-> fs, total_files |-> 0,
                success_count |-> 0, out |-> <<>>, result |-> "none"]
    /\ bq \in { [datasets |-> {}, tables |-> {}],
                [datasets |-> {Dotted(PROJECT_ID, DATASET_ID)}, tables |-> {}] }
    /\ up = UpIdle
    /\ up2 = UpIdle
    /\ nz = NzIdle
    /\ run = RunIdle
    /\ file = FileIdle

\* uploader = BigQueryCSVUploader(...): bigquery.Client(...) succeeds, or
\* it raises and __init__ calls sys.exit(1); SystemExit is no Exception, so
\* the coordinator's handler does not catch it and the function is left
\* with nothing attempted and nothing returned.
CreateUploader ==
    /\ co.pc = "init"
    /\ \/ co' = [co EXCEPT !.pc = "loop"]
       \/ co' = [co EXCEPT !.pc = "exited"]
    /\ UNCHANGED <<nz, run, file, up, up2, bq>>

\* if not Path(csv_file).exists(): print(Skipping ...); continue
\* SkipMissing_Break: the loop left with break instead of continue.
SkipMissing_Break(c, csv_file) ==
    [c EXCEPT !.total_files = @ + 1,
              !.out = Append(@, Line("skipping", {csv_file}, 0)),
              !.pc = "summary"]

SkipMissing(c, csv_file) ==
    [c EXCEPT !.total_files = @ + 1,
              !.out = Append(@, Line("skipping", {csv_file}, 0)),
              !.i = @ + 1]

\* The head of the for loop: the next entry of TABLE_MAPPING, the file
\* test, the two lines printed, Path(csv_file).stat() and the entry into
\* upload_csv_to_table; after the last entry, on to the summary.  stat()
\* stands outside the try: when it raises (the file is gone since the test,
\* or cannot be reached) the exception leaves batch_upload_csvs.
Attempt ==
    /\ co.pc = "loop"
    /\ IF co.i > Len(TABLE_MAPPING)
       THEN co' = [co EXCEPT !.pc = "summary"] /\ up' = up
       ELSE LET entry == TABLE_MAPPING[co.i] IN
            IF ~co.files[co.i].exists
            THEN co' = SkipMissing(co, entry.csv_file) /\ up' = up
            ELSE \/ /\ co' = [co EXCEPT !.total_files = @ + 1,
                                        !.out = Append(@, Line("processing", {entry.csv_file}, 0)),
                                        !.pc = "call"]
                    /\ up' = Call(co.files[co.i], BatchTableId(entry.table_name),
                                  Null, TRUE, DEFAULT_WRITE_DISPOSITION,
                                  DefaultSkipLeadingRows)
                 \/ /\ co' = [co EXCEPT !.total_files = @ + 1,
                                        !.out = Append(@, Line("processing", {entry.csv_file}, 0)),
                                        !.pc = "raised"]
                    /\ up' = up
    /\ UNCHANGED <<nz, run, file, up2, bq>>

\* upload_csv_to_table has returned: if success: success_count += 1 and
\* the success is printed, the table's info being asked for next; else: the
\* failure is printed.
AfterUpload ==
    /\ co.pc = "call"
    /\ up.pc = "returned"
    /\ co' = IF up.result = "True"
             THEN [co EXCEPT !.success_count = @ + 1,
                             !.out = Append(@, Line("successful", {}, 0)),
                             !.pc = "info"]
             ELSE [co EXCEPT !.out = Append(@, Line("failed", {}, 0)),
                             !.i = @ + 1, !.pc = "loop"]
    /\ UNCHANGED <<nz, run, file, up, up2, bq>>

\* info = uploader.get_table_info(table_id); if info: print the rows.
\* get_table_info returns None when get_table raises (NotFound or any
\* other exception), and then nothing is printed.
GetTableInfo ==
    /\ co.pc = "info"
    /\ \/ /\ TableExists(bq, up.table_id)
          /\ co' = [co EXCEPT !.out = Append(@, Line("rows", {}, TableRows(bq, up.table_id))),
                              !.i = @ + 1, !.pc = "loop"]
       \/ co' = [co EXCEPT !.i = @ + 1, !.pc = "loop"]
    /\ UNCHANGED <<nz, run, file, up, up2, bq>>

\* The summary: the three counts, then either the completion message and
\* True, or the no-files message and False.  (Before returning True the
\* function also prints the tables of the dataset with their row counts,
\* read through list_tables_in_dataset and get_table_info, which catch
\* every exception; that listing changes nothing and is left out.)
Summarize ==
    /\ co.pc = "summary"
    /\ co' = [co EXCEPT
                !.out = @ \o << Line("total_files", {}, co.total_files),
                                Line("successful_uploads", {}, co.success_count),
                                Line("failed_uploads", {}, co.total_files - co.success_count),
                                IF co.success_count > 0
                                THEN Line("completed", {}, co.success_count)
                                ELSE Line("none_uploaded", {}, 0) >>,
                !.result = IF co.success_count > 0 THEN "True" ELSE "False",
                !.pc = "returned"]
    /\ UNCHANGED <<nz, run, file, up, up2, bq>>

NextBatch ==
    \/ CreateUploader
    \/ Attempt
    \/ AfterUpload
    \/ GetTableInfo
    \/ Summarize
    \/ NextUpload

SpecBatch == InitBatch /\ [][NextBatch]_vars

(***************************************************************************)
(* Properties of one upload_csv_to_table call (checked under SpecUpload).  *)
(***************************************************************************)
\* C11: no load job configuration the call builds has autodetect = true
\* together with a schema that is not None.
C11_AutodetectExcludesSchema ==
    up.job # NoJob => ~(up.job.autodetect /\ up.job.schema # Null)

\* A configuration was built for a call that passed both an explicit schema
\* and auto_detect_schema = true: it carries the schema, autodetect off.
C11_Witness ==
    /\ up.job # NoJob
    /\ up.auto_detect_schema
    /\ up.schema_arg # Null
    /\ up.job.schema = up.schema_arg
    /\ ~up.job.autodetect

\* C12: a call whose table_id does not split at the dots into exactly
\* three segments never gets past the parsing of the identifier: it makes
\* no warehouse call (no dataset lookup or creation, no load job, no table
\* query), and it returns False.
C12_MalformedIdFailsFast ==
    Len(Split(up.table_id, ".")) # 3 =>
       /\ up.calls = <<>>
       /\ ~up.submitted
       /\ up.pc \in {"start", "parse", "returned"}
       /\ (up.pc = "returned" => up.result = "False")

\* A call for "p.ds.sales.x" on a file that exists has returned False.
C12_Witness ==
    /\ up.pc = "returned"
    /\ up.result = "False"
    /\ up.csv_file.exists
    /\ Len(up.parts) = 4
    /\ up.calls = <<>>

\* C19: a call without an explicit schema, for a table that is not in the
\* registry, with auto_detect_schema = false and a file from which no
\* column can be inferred, returns False once it is past the schema block
\* and has neither built nor submitted a load job.
C19_NoSchemaNoJob ==
    (/\ up.schema_arg = Null
     /\ ~up.auto_detect_schema
     /\ Len(up.csv_file.columns) = 0
     /\ Len(up.parts) = 3
     /\ Lower(up.parts[3]) \notin RegisteredNames
     /\ up.pc \notin {"start", "parse", "dataset", "create", "schema"})
    => /\ up.pc = "returned"
       /\ up.result = "False"
       /\ ~up.submitted
       /\ up.job = NoJob
       /\ LoadCalls(up) = {}

\* Such a call got as far as the schema block (its dataset was looked up),
\* inferred the empty schema and returned False.
C19_Witness ==
    /\ up.pc = "returned"
    /\ up.result = "False"
    /\ up.schema_arg = Null
    /\ ~up.auto_detect_schema
    /\ up.csv_file.exists
    /\ Len(up.csv_file.columns) = 0
    /\ Len(up.parts) = 3
    /\ Lower(up.parts[3]) \notin RegisteredNames
    /\ up.schema = EmptyList
    /\ Len(up.calls) = 1
    /\ up.calls[1].outcome = "ok"

\* The step in which job.result() returns after a load into a table that
\* held n rows, and the other steps of a call, for m rows of the file:
\* under WRITE_EMPTY with n > 0 no step of the call changes the table and
\* the call never gets past job.result() (it returns False); the step in
\* which job.result() returns leaves exactly m rows under WRITE_TRUNCATE
\* and exactly n + m rows under WRITE_APPEND; no other step of the call
\* changes the table, and the row count the call reads back is the table's.
DispositionStep(n, m) ==
    /\ (up.write_disposition = "WRITE_EMPTY" /\ n > 0
         /\ up.pc \notin {"info", "returned"})
        => (bq'.tables = bq.tables /\ up'.pc # "info" /\ up'.result # "True")
    /\ (up.pc = "wait" /\ up'.pc = "info")
        => /\ up.write_disposition = "WRITE_TRUNCATE"
                => TableRows(bq', up.table_id) = m
           /\ up.write_disposition = "WRITE_APPEND"
                => TableRows(bq', up.table_id) = n + m
    /\ (up.pc # "wait" \/ up'.pc # "info") => bq'.tables = bq.tables
    /\ (up.pc = "info" /\ up'.result = "True") => up'.num_rows = n

\* C14 (as claimed): a load into a table holding n rows of a file of m data
\* rows (the lines below its header line): WRITE_EMPTY with n > 0 fails and
\* leaves the n rows, WRITE_TRUNCATE leaves exactly m rows, WRITE_APPEND
\* exactly n + m, whatever the other arguments of the call.
C14_DataRowsLoaded ==
    [][up.pc # "idle" =>
          DispositionStep(TableRows(bq, up.table_id), up.csv_file.rows)]_vars

\* C14 (amended): the job carries the caller's write_disposition and
\* skip_leading_rows, and with m the number of lines the file has below
\* its first skip_leading_rows lines (its data rows when skip_leading_rows
\* is 1, the default): WRITE_EMPTY with n > 0 fails and leaves the n rows,
\* WRITE_TRUNCATE leaves exactly m rows, WRITE_APPEND exactly n + m.
C14_WriteDisposition ==
    [][up.pc # "idle" =>
          /\ DispositionStep(TableRows(bq, up.table_id),
                             DataRows(up.csv_file, up.skip_leading_rows))
          /\ up'.job # NoJob =>
                /\ up'.job.write_disposition = up.write_disposition
                /\ up'.job.skip_leading_rows = up.skip_leading_rows
          /\ up.skip_leading_rows = DefaultSkipLeadingRows =>
                DispositionStep(TableRows(bq, up.table_id), up.csv_file.rows)
      ]_vars

\* A one-row file has been loaded with skip_leading_rows 0 under
\* WRITE_TRUNCATE, and the call read back 2 rows: the header line and the
\* data row.
C14_Witness ==
    /\ up.pc = "returned"
    /\ up.result = "True"
    /\ up.write_disposition = "WRITE_TRUNCATE"
    /\ up.skip_leading_rows = 0
    /\ up.csv_file.rows = 1
    /\ up.num_rows = 2
    /\ TableRows(bq, up.table_id) = 2

(***************************************************************************)
(* Properties of the batch coordinator (checked under SpecBatch).          *)
(***************************************************************************)
MappedFiles == { TABLE_MAPPING[i].csv_file : i \in DOMAIN TABLE_MAPPING }

\* The lines of the output that open the report on file f.
LinesOn(f) ==
    { j \in DOMAIN co.out :
         co.out[j].msg \in {"skipping", "processing"} /\ f \in co.out[j].files }

\* The files the output reports as failed: skipped as not found, or
\* processed with the failure line next.
ListedFailed ==
    { f \in MappedFiles :
         \E j \in LinesOn(f) :
            \/ co.out[j].msg = "skipping"
            \/ j < Len(co.out) /\ co.out[j + 1].msg = "failed" }

\* The files the output reports as uploaded.
ListedSuccessful ==
    { f \in MappedFiles :
         \E j \in LinesOn(f) :
            /\ co.out[j].msg = "processing"
            /\ j < Len(co.out) /\ co.out[j + 1].msg = "successful" }

IsPrefix(s1, s2) == Len(s1) <= Len(s2) /\ SubSeq(s2, 1, Len(s1)) = s1

\* C15 (as claimed): whatever the outcome of each entity (file missing or
\* gone, upload returning False), a call of batch_upload_csvs whose
\* uploader was created attempts every entry of TABLE_MAPPING once, in
\* order, and returns; the output reports each entity on lines of its own
\* and the line that reports a failed upload names the entity that failed,
\* the summary counting the failures; and the function returns True if
\* and only if at least one upload returned True.
C15_BatchIsolation ==
    /\ [](co.pc \notin {"idle", "init", "exited"} => co.pc # "raised")
    /\ [](co.pc = "returned" =>
            /\ co.total_files = Len(TABLE_MAPPING)
            /\ \A i \in DOMAIN TABLE_MAPPING :
                  /\ Cardinality(LinesOn(TABLE_MAPPING[i].csv_file)) = 1
                  /\ \A k \in DOMAIN TABLE_MAPPING : i < k =>
                        \A a \in LinesOn(TABLE_MAPPING[i].csv_file),
                           b \in LinesOn(TABLE_MAPPING[k].csv_file) : a < b
                  /\ ~co.files[i].exists => TABLE_MAPPING[i].csv_file \in ListedFailed
            /\ ListedFailed \cup ListedSuccessful = MappedFiles
            /\ ListedFailed \cap ListedSuccessful = {}
            /\ Line("failed_uploads", {}, Cardinality(ListedFailed))
                  \in { co.out[j] : j \in DOMAIN co.out }
            /\ co.success_count = Cardinality(ListedSuccessful)
            /\ (co.result = "True") = (ListedSuccessful # {})
            /\ co.result \in {"True", "False"})
    /\ [][(co.pc = "loop" /\ co'.pc = "call")
             => /\ co.files[co.i].exists
                /\ up'.pc = "start"
                /\ up'.csv_file = co.files[co.i]
                /\ up'.table_id = BatchTableId(TABLE_MAPPING[co.i].table_name)]_vars
    /\ [][(co.pc = "call" /\ co'.pc # "call")
             => /\ up.pc = "returned"
                /\ co'.pc = (IF up.result = "True" THEN "info" ELSE "loop")
                /\ Len(co'.out) = Len(co.out) + 1
                /\ co'.out[Len(co'.out)].msg =
                      (IF up.result = "True" THEN "successful" ELSE "failed")
                /\ up.result # "True" =>
                      co'.out[Len(co'.out)].files = {TABLE_MAPPING[co.i].csv_file}]_vars
    /\ [][(co.pc = "info" /\ co'.pc # "info")
             => /\ co'.pc = "loop"
                /\ co'.i = co.i + 1
                /\ co'.success_count = co.success_count]_vars
    /\ [][co.pc # "idle" => IsPrefix(co.out, co'.out)]_vars

(***************************************************************************)
(* Accounting of the fetch loop over the pages of one run.                 *)
(***************************************************************************)
\* The number of pages whose loop iteration is over: the pages requested,
\* less the one the loop is still working on or has failed on.
PagesDone ==
    IF run.pc \in {"process", "save", "failed"} THEN run.fetches - 1
    ELSE run.fetches

\* The lines the rows of the page at offset j * BATCH_SIZE make.
LinesOfPage(j) ==
    LET r == Normalize(run.entity, PageAt(run.source, run.entity, j * BATCH_SIZE))
    IN  IF r.exc = "none" THEN RowLines(r.rows) ELSE <<>>

\* The lines of the first k pages, in fetch order.
RECURSIVE LinesOfPages(_)
LinesOfPages(k) ==
    IF k <= 0 THEN <<>> ELSE LinesOfPages(k - 1) \o LinesOfPage(k - 1)

\* The lines account for the lines `written` of the pages whose iteration
\* is over: their last lines are those rows, page after page in fetch
\* order, each page's rows once; what stands above them is nothing, the one header line the first
\* batch wrote, or what the artifact held before the run.
PagesAccounted(lines, written) ==
    LET n == Len(lines) - Len(written)
    IN  /\ n >= 0
        /\ SubSeq(lines, n + 1, Len(lines)) = written
        /\ \/ n = 0
           \/ n = 1 /\ IsHeaderLine(run.entity, lines[1])
           \/ SubSeq(lines, 1, n) = StaleFile(run.entity).lines

\* The write of the page the loop is working on has failed.
WriteFailed == run.pc = "failed" /\ run.error = "OSError"

\* The lines the failed write was to put down.
FailingLines == CsvLines(run.processed_batch, run.start = 0)

\* C21 (as claimed): at every point of a run, a failed one included, the
\* last lines of the artifact are the
\* rows of the pages whose iteration is over, page after page in fetch
\* order, each page's rows once; what stands above them is nothing, the one
\* header line the first batch wrote, or what the artifact held before the
\* run; and an empty page ends the loop with no normalization and no write.
C21_ExactlyOnce ==
    /\ [](run.pc # "idle" =>
            LET written == LinesOfPages(PagesDone)
                n       == Len(file.lines) - Len(written)
            IN  /\ n >= 0
                /\ SubSeq(file.lines, n + 1, Len(file.lines)) = written
                /\ \/ n = 0
                   \/ n = 1 /\ IsHeaderLine(run.entity, file.lines[1])
                   \/ SubSeq(file.lines, 1, n) = StaleFile(run.entity).lines)
    /\ [][(run.pc = "fetch" /\ run'.error = "none" /\ Len(run'.batch_data) = 0)
             => /\ run'.pc = "returned"
                /\ file' = file
                /\ run'.rows = run.rows
                /\ run'.processed_batch = run.processed_batch
                /\ run'.saves = run.saves]_vars

\* C21: at every point of a run where no write has failed, the artifact
\* accounts for the pages whose iteration is over, each page's rows once
\* and in fetch order; after a failed write the artifact is as the write
\* found it, or it holds what the earlier pages left (nothing, when the
\* failing page is the first) followed by a part of the failing page's
\* lines; and an empty page ends the loop with no normalization and no
\* write.
C21_ExactlyOnceUnlessWriteFailed ==
    /\ []((run.pc # "idle" /\ ~WriteFailed) =>
            PagesAccounted(file.lines, LinesOfPages(PagesDone)))
    /\ [](WriteFailed =>
            LET written == LinesOfPages(PagesDone)
                parts   == PartialLines(FailingLines)
            IN  \/ PagesAccounted(file.lines, written)
                \/ \E n \in 0..Len(file.lines) :
                      /\ SubSeq(file.lines, n + 1, Len(file.lines)) \in parts
                      /\ IF run.start = 0 THEN n = 0
                         ELSE PagesAccounted(SubSeq(file.lines, 1, n), written))
    /\ [][(run.pc = "fetch" /\ run'.error = "none" /\ Len(run'.batch_data) = 0)
             => /\ run'.pc = "returned"
                /\ file' = file
                /\ run'.rows = run.rows
                /\ run'.processed_batch = run.processed_batch
                /\ run'.saves = run.saves]_vars

\* The write of the second page failed after its first line: the first
\* page stands in the artifact under its header, once, and one line of the
\* second page follows it.
C21_Witness ==
    /\ WriteFailed
    /\ run.fetches = 2
    /\ run.saves = 1
    /\ Len(FailingLines) > 1
    /\ Len(file.lines) = 1 + BATCH_SIZE + 1
    /\ file.lines[Len(file.lines)] = FailingLines[1]
    /\ PagesAccounted(SubSeq(file.lines, 1, 1 + BATCH_SIZE), LinesOfPages(1))
    /\ ~PagesAccounted(file.lines, LinesOfPages(1))


(***************************************************************************)
(* The fetch loop when every step it is about to take is taken in the      *)
(* end: a request returns (with a page or with an error), and the          *)
(* statements after it run.                                                *)
(***************************************************************************)
\* Weak fairness of Process and of Save, with ENABLED written as the
\* condition it equals: the loop stands at that statement.
FairProcess == []<>(run.pc # "process") \/ []<><<Process>>_vars

FairSave == []<>(run.pc # "save") \/ []<><<Save>>_vars

SpecFair ==
    Spec /\ WF_vars(Request) /\ WF_vars(Advance) /\ FairProcess /\ FairSave

\* C22: over a source of finitely many records that answers a request with
\* the records at the requested offset, a run whose requests all return
\* ends, returned or failed; and the loop goes on to another request only
\* after a page of exactly BATCH_SIZE records.
C22_Terminates ==
    /\ <>(run.pc \in {"returned", "failed"})
    /\ [][(run.pc # "fetch" /\ run'.pc = "fetch")
             => /\ run.pc = "advance"
                /\ Len(run.batch_data) = BATCH_SIZE
                /\ run'.fetches = run.fetches]_vars

\* A run over 61 records has returned after its third page, of one record.
C22_Witness ==
    /\ run.pc = "returned"
    /\ run.source.total = 2 * BATCH_SIZE + 1
    /\ run.fetches = 3
    /\ Len(run.batch_data) = 1


(***************************************************************************)
(* upload_csv_to_table: how a call ends, and the order of its steps.       *)
(***************************************************************************)
\* The warehouse calls of u that raised (NotFound from get_dataset is
\* handled by the creation and is none of them).
FailedCalls(u) ==
    { i \in DOMAIN u.calls : u.calls[i].outcome \notin {"ok", "NotFound"} }

\* The calls of u, in order, that u made of operation op.
CallsOf(u, op) == { i \in DOMAIN u.calls : u.calls[i].op = op }

\* C23: a call of upload_csv_to_table is at one of its statements or has
\* returned True or False, no exception leaving it; it has returned True
\* only if the file exists, the identifier has three parts, no warehouse
\* call raised, the load job was submitted, job.result() returned and
\* get_table was then read; and a missing file, a malformed identifier, a
\* failed dataset lookup or creation, a schema that cannot be determined, a
\* file that cannot be opened, a failed submission, a failed job and a
\* failed get_table each make it return False at once.
C23_FailuresReturned ==
    /\ [](up.pc \in {"idle", "start", "parse", "dataset", "create", "schema",
                     "submit", "wait", "info", "returned"})
    /\ [](up.pc = "returned" =>
            /\ up.result \in {"True", "False"}
            /\ up.result = "True" =>
                  /\ up.csv_file.exists
                  /\ Len(Split(up.table_id, ".")) = 3
                  /\ FailedCalls(up) = {}
                  /\ up.submitted
                  /\ Len(up.calls) >= 3
                  /\ up.calls[Len(up.calls) - 2] =
                        WarehouseCall("load_table_from_file", up.table_id, "ok")
                  /\ up.calls[Len(up.calls) - 1] =
                        WarehouseCall("job.result", up.table_id, "ok")
                  /\ up.calls[Len(up.calls)] =
                        WarehouseCall("get_table", up.table_id, "ok")
            /\ up.result = "False" =>
                  \/ ~up.csv_file.exists
                  \/ Len(Split(up.table_id, ".")) # 3
                  \/ FailedCalls(up) = {Len(up.calls)}
                  \/ ~ResolveSchema(up.schema_arg, up.parts[3],
                                    up.auto_detect_schema, up.csv_file).ok
                  \/ /\ up.job # NoJob
                     /\ CallsOf(up, "load_table_from_file") = {}
                     /\ ~up.submitted)
    /\ [][(up.pc \notin {"idle", "returned"} /\ up' # up)
             => LET fails ==
                       \/ up.pc = "start" /\ ~up.csv_file.exists
                       \/ up.pc = "parse" /\ Len(Split(up.table_id, ".")) # 3
                       \/ up.pc = "schema"
                          /\ ~ResolveSchema(up.schema_arg, up.parts[3],
                                            up.auto_detect_schema, up.csv_file).ok
                       \/ FailedCalls(up') # {}
                       \/ up.pc = "submit" /\ up'.calls = up.calls
                IN  IF fails
                    THEN up'.pc = "returned" /\ up'.result = "False"
                    ELSE up'.result \in {"none", "True"}]_vars

\* A call has returned False because job.result() raised, after the
\* dataset was created and the job submitted.
C23_Witness ==
    /\ up.pc = "returned"
    /\ up.result = "False"
    /\ Len(up.calls) = 4
    /\ up.calls[2] = WarehouseCall("create_dataset", Dotted(ProjectP, DatasetDs), "ok")
    /\ up.calls[4] = WarehouseCall("job.result", up.table_id, "error")


\* The dataset step of u has succeeded: get_dataset found the dataset, or
\* it raised NotFound and create_dataset then succeeded.
DatasetEnsured(u) ==
    /\ Len(u.calls) >= 1
    /\ u.calls[1].op = "get_dataset"
    /\ \/ u.calls[1].outcome = "ok"
       \/ /\ u.calls[1].outcome = "NotFound"
          /\ Len(u.calls) >= 2
          /\ u.calls[2].op = "create_dataset"
          /\ u.calls[2].outcome = "ok"

\* C24: within one call, no warehouse call is made before the identifier
\* has been split into three parts; the schema is resolved only after the
\* dataset step succeeded; at most one load job is submitted, after the
\* dataset step and the schema resolution succeeded and after every dataset
\* call; get_table is called only right after job.result() returned; and
\* the count a call that returns True has read is the number of rows the
\* table holds after this load.
C24_StepOrdering ==
    /\ [](up.pc # "idle" =>
            /\ up.calls # <<>> =>
                  (up.parts = Split(up.table_id, ".") /\ Len(up.parts) = 3)
            /\ up.pc \in {"schema", "submit", "wait", "info"} => DatasetEnsured(up)
            /\ Cardinality(CallsOf(up, "load_table_from_file")) <= 1
            /\ \A i \in CallsOf(up, "load_table_from_file") :
                  /\ DatasetEnsured(up)
                  /\ ResolveSchema(up.schema_arg, up.parts[3],
                                   up.auto_detect_schema, up.csv_file)
                        = [ok |-> TRUE, schema |-> up.schema]
                  /\ \A k \in CallsOf(up, "get_dataset") \cup CallsOf(up, "create_dataset") :
                        k < i
            /\ \A i \in CallsOf(up, "get_table") :
                  /\ i > 1
                  /\ up.calls[i - 1] = WarehouseCall("job.result", up.table_id, "ok")
            /\ \A i \in CallsOf(up, "job.result") :
                  /\ i > 1
                  /\ up.calls[i - 1] = WarehouseCall("load_table_from_file", up.table_id, "ok"))
    /\ [][up'.schema # up.schema => (up.pc = "schema" /\ DatasetEnsured(up))]_vars
    /\ [][(up.pc = "info" /\ up'.result = "True")
             => /\ up'.num_rows = TableRows(bq, up.table_id)
                /\ bq' = bq]_vars
    /\ [][(up.pc = "wait" /\ up'.pc = "info")
             => TableRows(bq', up.table_id) =
                   (IF up.job.write_disposition = "WRITE_APPEND"
                    THEN TableRows(bq, up.table_id) ELSE 0)
                   + DataRows(up.csv_file, up.job.skip_leading_rows)]_vars

\* A call has returned True after appending one row to a table that held
\* two: the count it read is 3.
C24_Witness ==
    /\ up.pc = "returned"
    /\ up.result = "True"
    /\ up.write_disposition = "WRITE_APPEND"
    /\ DataRows(up.csv_file, up.job.skip_leading_rows) = 1
    /\ up.num_rows = 3


\* The data line an earlier run of the script left in the artifact.
OldLine(entity) == StaleFile(entity).lines[2]

\* C25 (as claimed): when a run has returned, the artifact holds no line an
\* earlier run left, and below at most one header line it holds exactly
\* the rows of the pages of this run; whatever the source held, an empty
\* source and a first page that normalizes to no row included.
C25_RerunSafe ==
    run.pc = "returned" =>
       LET written == LinesOfPages(run.fetches) IN
       /\ \A i \in DOMAIN file.lines : file.lines[i] # OldLine(run.entity)
       /\ \/ file.lines = written
          \/ /\ Len(file.lines) = 1 + Len(written)
             /\ IsHeaderLine(run.entity, file.lines[1])
             /\ SubSeq(file.lines, 2, Len(file.lines)) = written


\* C26 (as claimed): the dataset a call looks up or creates is the dataset
\* of its table, project.dataset with both parts taken from table_id, also
\* when that project is not the client's; and when the load job is
\* submitted that dataset exists.
C26_DatasetOfTable ==
    up.pc # "idle" =>
       /\ \A i \in CallsOf(up, "get_dataset") \cup CallsOf(up, "create_dataset") :
             up.calls[i].arg = Dotted(up.parts[1], up.parts[2])
       /\ up.pc = "submit" => Dotted(up.parts[1], up.parts[2]) \in bq.datasets


(***************************************************************************)
(* The artifact of each extraction script and the table it is loaded to.   *)
(***************************************************************************)
\* OUTPUT_FILE of the four scripts.
OUTPUT_FILE(entity) ==
    CASE entity = "inventory" -> "items_inventory.csv"
      [] entity = "movements" -> "warehouse_movements.csv"
      [] entity = "purchases" -> "purchase_orders.csv"
      [] entity = "sales"     -> "factura_items.csv"

\* TABLE_MAPPING[csv_file]
MappedTable(csv_file) ==
    LET i == CHOOSE k \in DOMAIN TABLE_MAPPING : TABLE_MAPPING[k].csv_file = csv_file
    IN  TABLE_MAPPING[i].table_name

\* The column names of a schema, in order.
SchemaNames(schema) == [i \in DOMAIN schema.l |-> schema.l[i].name]

\* C27 (as claimed): every script's OUTPUT_FILE is an entry of
\* TABLE_MAPPING, and once the first batch of a run is saved the header of
\* the artifact, and the columns a complete row of the entity has, are the
\* column names of the schema get_predefined_schema returns for the mapped
\* table, as many and in the same order.
C27_RegistryMatchesArtifact ==
    run.pc # "idle" =>
       LET schema == get_predefined_schema(MappedTable(OUTPUT_FILE(run.entity))) IN
       /\ \E k \in DOMAIN TABLE_MAPPING :
             TABLE_MAPPING[k].csv_file = OUTPUT_FILE(run.entity)
       /\ schema # Null
       /\ (run.pc = "advance" /\ run.start = 0 /\ run.saves = 1) =>
             /\ file.lines[1] = SchemaNames(schema)
             /\ FullColumns(run.entity) = SchemaNames(schema)


(***************************************************************************)
(* main() of the four scripts: the fetch loop inside try, then the two     *)
(* statements that name the final file; except Exception: log and raise.   *)
(*   pc: ... "returned" -> "main_returned" | "main_raised",                *)
(*       "failed" -> "main_raised"                                         *)
(***************************************************************************)
\* The names main assigns, which are local to it.
MainLocals(entity) ==
    CASE entity = "inventory" -> {"items_data", "final_output_file"}
      [] entity = "movements" -> {"transfers_data", "final_output_file"}
      [] entity = "purchases" -> {"orders_data", "final_output_file"}
      [] entity = "sales"     -> {"invoice_data", "OUTPUT_FILE"}

\* The statement that names the final file reads OUTPUT_FILE; a name that is
\* local to the function and not yet bound raises UnboundLocalError.
FinalFileName(entity) ==
    IF "OUTPUT_FILE" \in MainLocals(entity) THEN Raise("UnboundLocalError")
    ELSE Ok(IF entity = "purchases" THEN OUTPUT_FILE(entity)
            ELSE <<"final_", OUTPUT_FILE(entity)>>)

Main ==
    /\ run.pc \in {"returned", "failed"}
    /\ run' = IF run.pc = "failed"
              THEN [run EXCEPT !.pc = "main_raised"]
              ELSE LET r == FinalFileName(run.entity) IN
                   IF r.exc # "none"
                   THEN [run EXCEPT !.error = r.exc, !.pc = "main_raised"]
                   ELSE [run EXCEPT !.pc = "main_returned"]
    /\ UNCHANGED <<nz, file, up, up2, bq, co>>

NextMain ==
    \/ Next
    \/ Main

SpecMain == Init /\ [][NextMain]_vars

\* C28 (as claimed): in each of the four scripts, when the fetch loop has
\* returned, main returns too; main raises only the exception that made
\* the fetch loop fail.
C28_MainCompletes ==
    [][(run.pc = "returned" /\ run' # run)
          => /\ run'.pc = "main_returned"
             /\ run'.error = "none"]_vars
=============================================================================
